---- MODULE Spec2Model ----
(***************************************************************************)
(* A model of the go-aci rule expression engine: comparison operators,     *)
(* the keyword registry, TargetRule conditions, TargetRules collections,   *)
(* PermissionBindRule rendering and the typed rule builders.               *)
(*                                                                         *)
(* Text is modelled as a sequence of one-character strings, so that case   *)
(* folding, quoting, joining and parsing are computed character by         *)
(* character.                                                              *)
(***************************************************************************)
EXTENDS Integers, Sequences, FiniteSets, TLC

VARIABLES
    rule,       \* the TargetRule under construction / mutation
    prev,       \* the TargetRule as it was before the last call
    call,       \* the last call made on rule: its name and arguments
    trs,        \* a TargetRules collection: the sequence of its elements
    tprev,      \* the collection as it was before the last call
    tcall,      \* the last call made on the collection and what it returned
    nrep,       \* how many replace calls were made on the collection
    arg,        \* the input handed to a function or method
    res         \* what that function returned, or the receiver's value after it

ruleVars == <<rule, prev, call>>
collVars == <<trs, tprev, tcall, nrep>>
funVars == <<arg, res>>
vars == <<ruleVars, collVars, funVars>>

(***************************************************************************)
(* Text helpers                                                            *)
(***************************************************************************)

Upper == <<"A","B","C","D","E","F","G","H","I","J","K","L","M",
           "N","O","P","Q","R","S","T","U","V","W","X","Y","Z">>
Lower == <<"a","b","c","d","e","f","g","h","i","j","k","l","m",
           "n","o","p","q","r","s","t","u","v","w","x","y","z">>
Digits == <<"0","1","2","3","4","5","6","7","8","9">>

InSeq(c, s) == \E i \in 1..Len(s) : s[i] = c
IndexIn(c, s) == CHOOSE i \in 1..Len(s) : s[i] = c

isLower(c) == InSeq(c, Lower)
isUpper(c) == InSeq(c, Upper)
isDigit(c) == InSeq(c, Digits)

\* strings.ToLower, one character at a time
LowerOf == [c \in {Upper[i] : i \in 1..Len(Upper)} |-> Lower[IndexIn(c, Upper)]]
lcChar(c) == IF c \in DOMAIN LowerOf THEN LowerOf[c] ELSE c
\* A lower-casing that leaves the text as it is.
lc_asIs(s) == s

lc(s) == [i \in 1..Len(s) |-> lcChar(s[i])]

\* strings.EqualFold
eq(a, b) == Len(a) = Len(b) /\ \A i \in 1..Len(a) : lcChar(a[i]) = lcChar(b[i])

RECURSIVE Join(_, _)
Join(ss, delim) ==
    IF Len(ss) = 0 THEN <<>>
    ELSE IF Len(ss) = 1 THEN ss[1]
    ELSE ss[1] \o delim \o Join(Tail(ss), delim)

DQ == <<"\"">>
SP == <<" ">>

(***************************************************************************)
(* ComparisonOperator                                                      *)
(***************************************************************************)

badCop == 0
Eq == 1
Ne == 2
Lt == 3
Le == 4
Gt == 5
Ge == 6

Cops == {Eq, Ne, Lt, Le, Gt, Ge}

CopString(c) ==
    CASE c = Eq -> <<"=">>
      [] c = Ne -> <<"!","=">>
      [] c = Lt -> <<"<">>
      [] c = Le -> <<"<","=">>
      [] c = Gt -> <<">">>
      [] c = Ge -> <<">","=">>
      [] OTHER  -> <<>>

comparisonOperatorMap == [c \in Cops |-> CopString(c)]

matchCOP(op) ==
    IF \E c \in Cops : comparisonOperatorMap[c] = op
    THEN CHOOSE c \in Cops : comparisonOperatorMap[c] = op
    ELSE badCop

(***************************************************************************)
(* Keyword registry                                                        *)
(***************************************************************************)

Target == <<"t","a","r","g","e","t">>
TargetTo == <<"t","a","r","g","e","t","_","t","o">>
TargetFrom == <<"t","a","r","g","e","t","_","f","r","o","m">>
TargetAttr == <<"t","a","r","g","e","t","a","t","t","r">>
TargetCtrl == <<"t","a","r","g","e","t","c","o","n","t","r","o","l">>
TargetScope == <<"t","a","r","g","e","t","s","c","o","p","e">>
TargetFilter == <<"t","a","r","g","e","t","f","i","l","t","e","r">>
TargetAttrFilters == <<"t","a","r","g","e","t","a","t","t","r","f","i","l","t","e","r","s">>
TargetExtOp == <<"e","x","t","o","p">>
BindUDN == <<"u","s","e","r","d","n">>
BindRDN == <<"r","o","l","e","d","n">>
BindGDN == <<"g","r","o","u","p","d","n">>
BindIP == <<"i","p">>
BindAM == <<"a","u","t","h","m","e","t","h","o","d">>
BindDNS == <<"d","n","s">>
BindUAT == <<"u","s","e","r","a","t","t","r">>
BindGAT == <<"g","r","o","u","p","a","t","t","r">>
BindDoW == <<"d","a","y","o","f","w","e","e","k">>
BindSSF == <<"s","s","f">>
BindToD == <<"t","i","m","e","o","f","d","a","y">>

TargetKeywords == {Target, TargetTo, TargetFrom, TargetAttr, TargetCtrl,
                   TargetScope, TargetFilter, TargetAttrFilters, TargetExtOp}
BindKeywords == {BindUDN, BindRDN, BindGDN, BindIP, BindAM, BindDNS,
                 BindUAT, BindGAT, BindDoW, BindSSF, BindToD}

\* TargetKeyword(0x0) and BindKeyword(0x0): the text is what String() gives.
badTKW == <<"<","i","n","v","a","l","i","d","_","t","k","w",">">>
badBKW == <<"<","i","n","v","a","l","i","d","_","b","k","w",">">>

matchTKW(s) ==
    IF \E k \in TargetKeywords : eq(s, k)
    THEN CHOOSE k \in TargetKeywords : eq(s, k)
    ELSE badTKW

matchBKW(s) ==
    IF \E k \in BindKeywords : eq(s, k)
    THEN CHOOSE k \in BindKeywords : eq(s, k)
    ELSE badBKW

\* A target registry in which targetfilter permits Eq alone.
permittedTarget_filterEqOnly ==
    [k \in TargetKeywords |->
        IF k \in {TargetScope, TargetAttrFilters, TargetFilter} THEN <<Eq>> ELSE <<Eq, Ne>>]

permittedTargetComparisonOperators ==
    [k \in TargetKeywords |->
        IF k \in {TargetScope, TargetAttrFilters} THEN <<Eq>> ELSE <<Eq, Ne>>]

permittedBindComparisonOperators ==
    [k \in BindKeywords |->
        IF k \in {BindSSF, BindToD} THEN <<Eq, Ne, Lt, Le, Gt, Ge>> ELSE <<Eq, Ne>>]

targetKeywordAllowsComparisonOperator(key, cop) ==
    IF key \notin DOMAIN permittedTargetComparisonOperators THEN FALSE
    ELSE \E i \in 1..Len(permittedTargetComparisonOperators[key]) :
            cop = permittedTargetComparisonOperators[key][i]

\* A bind registry look-up that passes any operator for a registered keyword.
bindKeywordAllows_anyOp(key, cop) ==
    key \in DOMAIN permittedBindComparisonOperators

bindKeywordAllowsComparisonOperator(key, cop) ==
    IF key \notin DOMAIN permittedBindComparisonOperators THEN FALSE
    ELSE \E i \in 1..Len(permittedBindComparisonOperators[key]) :
            cop = permittedBindComparisonOperators[key][i]

\* A value of dynamic type: typ names the Go type, v holds the value.
\*   "ComparisonOperator" (a number), "string" (a text),
\*   "TargetKeyword" / "BindKeyword" (the keyword, by its text), "nil", "other".
Val(typ, v) == [typ |-> typ, v |-> v]
NilVal == Val("nil", 0)
OtherVal == Val("other", 0)

keywordAllowsComparisonOperator(kw, op) ==
    IF op.typ \notin {"string", "ComparisonOperator"} THEN FALSE
    ELSE LET cop == IF op.typ = "string" THEN matchCOP(op.v) ELSE op.v IN
         CASE kw.typ = "string" ->
                IF matchBKW(kw.v) # badBKW
                THEN bindKeywordAllowsComparisonOperator(matchBKW(kw.v), cop)
                ELSE IF matchTKW(kw.v) # badTKW
                THEN targetKeywordAllowsComparisonOperator(matchTKW(kw.v), cop)
                ELSE FALSE
           [] kw.typ = "BindKeyword" -> bindKeywordAllowsComparisonOperator(kw.v, cop)
           [] kw.typ = "TargetKeyword" -> targetKeywordAllowsComparisonOperator(kw.v, cop)
           [] OTHER -> FALSE

(***************************************************************************)
(* Bounds: the sample values drawn for expressions                         *)
(***************************************************************************)

NumVals == 2        \* how many sample element values are drawn
MaxStackLen == 3    \* longest multi-value stack drawn as an expression

SampleVals == <<
    <<"c","n">>,
    <<"s","n">>,
    <<"g","i","v","e","n","N","a","m","e">>,
    <<"u","i","d">>,
    <<"1",".","3",".","6">> >>

ValPool == {SampleVals[i] : i \in 1..(IF NumVals < Len(SampleVals) THEN NumVals ELSE Len(SampleVals))}

RECURSIVE SeqsUpTo(_, _)
SeqsUpTo(S, n) ==
    IF n = 0 THEN {<<>>}
    ELSE LET shorter == SeqsUpTo(S, n - 1) IN
         shorter \cup {Append(q, x) : q \in {t \in shorter : Len(t) = n - 1}, x \in S}

(***************************************************************************)
(* Expression values                                                       *)
(***************************************************************************)

\* A multi-value stack (AttributeTypes, ObjectIdentifiers,
\* TargetDistinguishedNames): its elements and whether each is quoted.
Stack(vals, quoted) == Val("stack", [vals |-> vals, encap |-> quoted])

isStackageStack(x) == x.typ = "stack"

\* AttributeTypes / ObjectIdentifiers / TargetDistinguishedNames .setQuoteStyle:
\* slice quotes put a pair of quotes around every element, anything else none.
MultivalOuterQuotes == 0
MultivalSliceQuotes == 1

setQuoteStyle(x, style) ==
    Val("stack", [x.v EXCEPT !.encap = (style = MultivalSliceQuotes)])

SymbolicOr == <<" ","|","|"," ">>

StackString(x) ==
    Join([i \in 1..Len(x.v.vals) |->
            IF x.v.encap THEN DQ \o x.v.vals[i] \o DQ ELSE x.v.vals[i]],
         SymbolicOr)

ExprString(x) ==
    CASE x.typ = "stack" -> StackString(x)
      [] x.typ = "string" -> x.v
      [] OTHER -> <<>>

(***************************************************************************)
(* TargetRule: a stackage.Condition                                        *)
(***************************************************************************)

targetRuleID == <<"t","a","r","g","e","t">>

badTargetRule ==
    [init |-> FALSE, kw |-> <<>>, op |-> badCop, ex |-> NilVal,
     encap |-> FALSE, paren |-> FALSE, nopad |-> FALSE, id |-> <<>>]

IsZero(r) == ~r.init

\* Condition.Keyword: the raw text stored in the condition.
RawKeyword(r) == r.kw

\* TargetRule.Keyword: the raw text resolved into a TargetKeyword.
Keyword(r) == matchTKW(RawKeyword(r))

Operator(r) == IF IsZero(r) THEN badCop ELSE r.op

Expression(r) == r.ex

KeywordText(kw) ==
    IF kw.typ \in {"string", "TargetKeyword", "BindKeyword"} THEN kw.v ELSE <<>>

SetKeyword(r, kw) == [r EXCEPT !.init = TRUE, !.kw = KeywordText(kw)]

\* SetOperator without the check against the keyword's permitted operators.
SetOperator_unguarded(r, op) ==
    IF op.typ \notin {"string", "ComparisonOperator"} THEN r
    ELSE LET cop == IF op.typ = "string" THEN matchCOP(op.v) ELSE op.v IN
         IF cop = badCop THEN r
         ELSE [r EXCEPT !.init = TRUE, !.op = cop]

SetOperator(r, op) ==
    IF ~keywordAllowsComparisonOperator(Val("TargetKeyword", Keyword(r)), op)
    THEN r
    ELSE IF op.typ \notin {"string", "ComparisonOperator"} THEN r
    ELSE LET cop == IF op.typ = "string" THEN matchCOP(op.v) ELSE op.v IN
         IF cop = badCop THEN r
         ELSE [r EXCEPT !.init = TRUE, !.op = cop]

SetExpression(r, expr) == [r EXCEPT !.init = TRUE, !.encap = TRUE, !.ex = expr]

\* newTargetRule that leaves the padding switched on whatever the flag says.
newTargetRule_alwaysPadded(kw, op, ex, padding) ==
    LET t == SetExpression(SetOperator(SetKeyword(badTargetRule, kw), op), ex) IN
    [t EXCEPT !.encap = TRUE, !.paren = TRUE, !.id = targetRuleID, !.nopad = FALSE]

newTargetRule(kw, op, ex, padding) ==
    LET t == SetExpression(SetOperator(SetKeyword(badTargetRule, kw), op), ex) IN
    [t EXCEPT !.encap = TRUE, !.paren = TRUE, !.id = targetRuleID,
              !.nopad = ~padding]

TR(kw, op, ex) == newTargetRule(kw, op, ex, TRUE)

\* stackage Condition.Valid: TRUE when no error is returned.
ConditionValid(r) ==
    /\ r.init
    /\ r.ex.typ # "nil"
    /\ Len(r.kw) > 0
    /\ r.op \in Cops

\* The operator as Condition.Operator hands it out: nil while unset.
OperatorVal(r) == IF r.op = badCop THEN NilVal ELSE Val("ComparisonOperator", r.op)

\* TargetRule.Valid: TRUE when the returned error is nil.
TargetRuleValid(r) ==
    IF IsZero(r) THEN FALSE
    ELSE IF ~keywordAllowsComparisonOperator(Val("string", RawKeyword(r)), OperatorVal(r))
    THEN TRUE
    ELSE ConditionValid(r)

\* SetQuoteStyle that sets the stack's style and leaves the condition's quotes.
SetQuoteStyle_keepOuter(r, style) ==
    IF isStackageStack(Expression(r))
    THEN [r EXCEPT !.ex = setQuoteStyle(r.ex, style)]
    ELSE r

SetQuoteStyle(r, style) ==
    LET key == Keyword(r) IN
    IF key \in {Target, TargetTo, TargetFrom, TargetExtOp, TargetCtrl, TargetAttr}
    THEN IF isStackageStack(Expression(r))
         THEN [r EXCEPT !.ex = setQuoteStyle(r.ex, style),
                        !.encap = (style # MultivalSliceQuotes)]
         ELSE r
    ELSE IF IsZero(r) THEN r
    ELSE [r EXCEPT !.encap = (style # MultivalSliceQuotes)]

\* stackage Condition.String
ConditionString(r) ==
    LET pad == IF r.nopad THEN <<>> ELSE SP
        val == IF r.encap THEN DQ \o ExprString(r.ex) \o DQ ELSE ExprString(r.ex)
        s == r.kw \o pad \o CopString(r.op) \o pad \o val
    IN IF r.paren THEN <<"(">> \o pad \o s \o pad \o <<")">> ELSE s

TargetRuleString(r) ==
    IF IsZero(r) THEN <<>>
    ELSE ConditionString([r EXCEPT !.paren = TRUE])

(***************************************************************************)
(* TargetRules: a stackage.Stack of TargetRule, with a push policy         *)
(***************************************************************************)

TargetRulesCap == 9

\* TargetRules.contains: TRUE when a keyword (or its text) is already present.
contains(s, x) ==
    IF Len(s) = 0 THEN FALSE
    ELSE IF x.typ \notin {"string", "TargetKeyword", "BindKeyword"} THEN FALSE
    ELSE IF x.typ # "string" /\ matchTKW(x.v) = badTKW THEN FALSE
    ELSE IF Len(x.v) = 0 THEN FALSE
    ELSE \E i \in 1..Len(s) : eq(Keyword(s[i]), x.v)

\* pushPolicy that only refuses what is not a non-zero TargetRule.
pushPolicy_typeOnly(s, x) == x.typ = "TargetRule" /\ ~IsZero(x.v)

\* TargetRules.pushPolicy: TRUE when the returned error is nil.
pushPolicy(s, x) ==
    IF x.typ = "TargetRule"
    THEN ~IsZero(x.v) /\ ~contains(s, Val("TargetKeyword", Keyword(x.v)))
    ELSE FALSE

\* stackage Stack.Push of one item: the capacity, then the push policy.
StackPush(s, x) ==
    IF Len(s) >= TargetRulesCap THEN s
    ELSE IF pushPolicy(s, x) THEN Append(s, x.v)
    ELSE s

RECURSIVE PushAll(_, _)
PushAll(s, xs) ==
    IF Len(xs) = 0 THEN s ELSE PushAll(StackPush(s, Head(xs)), Tail(xs))

\* TRs(x...): a new collection, the arguments pushed in order.
TRs(xs) == PushAll(<<>>, xs)

\* TargetRules.Push(x ...TargetRule)
Push(s, xs) == PushAll(s, xs)

\* TargetRules.Pop: the collection left and the element handed out.
PopRest(s) == IF Len(s) = 0 THEN s ELSE SubSeq(s, 1, Len(s) - 1)
\* A Pop that hands out the oldest element.
PopElem_first(s) == IF Len(s) = 0 THEN badTargetRule ELSE s[1]

PopElem(s) == IF Len(s) = 0 THEN badTargetRule ELSE s[Len(s)]

\* An Index that counts a negative index from the end.
Index_wrap(s, idx) ==
    IF idx >= 0 /\ idx < Len(s) THEN s[idx + 1]
    ELSE IF idx < 0 /\ Len(s) + idx >= 0 THEN s[Len(s) + idx + 1]
    ELSE badTargetRule

\* TargetRules.Index, by a zero-based index.
Index(s, idx) == IF idx >= 0 /\ idx < Len(s) THEN s[idx + 1] ELSE badTargetRule

\* TargetRules.remove, by a zero-based index: the collection left and ok.
RemoveOk(s, idx) == idx >= 0 /\ idx < Len(s)
RemoveRest(s, idx) ==
    IF RemoveOk(s, idx)
    THEN SubSeq(s, 1, idx) \o SubSeq(s, idx + 2, Len(s))
    ELSE s

\* TargetRules.replace: stackage Stack.Replace overwrites the slot in place.
replace(s, x, idx) ==
    IF idx >= 0 /\ idx < Len(s) /\ x.typ # "nil"
    THEN [s EXCEPT ![idx + 1] = x.v]
    ELSE s

(***************************************************************************)
(* Identifiers and the inheritance mini-grammar                            *)
(***************************************************************************)

isAlnum(c) == isLower(c) \/ isUpper(c) \/ isDigit(c)

\* isIdentifier that lets only letters and digits through.
isIdentifier_alnumOnly(val) ==
    /\ Len(val) > 0
    /\ isLower(val[1])
    /\ \A i \in 1..Len(val) : isAlnum(val[i])

\* isIdentifier that leaves the first character unchecked.
isIdentifier_anyFirst(val) ==
    /\ Len(val) > 0
    /\ isAlnum(val[Len(val)])
    /\ \A i \in 1..Len(val) : isAlnum(val[i]) \/ val[i] = ";" \/ val[i] = "-"

\* isIdentifier that leaves the last character unchecked.
isIdentifier_anyLast(val) ==
    /\ Len(val) > 0
    /\ isLower(val[1])
    /\ \A i \in 1..Len(val) : isAlnum(val[i]) \/ val[i] = ";" \/ val[i] = "-"

isIdentifier(val) ==
    IF Len(val) = 0 THEN FALSE
    ELSE IF ~isLower(val[1]) THEN FALSE
    ELSE IF ~isAlnum(val[Len(val)]) THEN FALSE
    ELSE \A i \in 1..Len(val) : isAlnum(val[i]) \/ val[i] = ";" \/ val[i] = "-"

hasPfx(s, p) == Len(s) >= Len(p) /\ SubSeq(s, 1, Len(p)) = p

\* strings.IndexRune, one-based; 0 when c does not occur.
idxr(s, c) ==
    IF InSeq(c, s) THEN CHOOSE i \in 1..Len(s) : s[i] = c /\ \A j \in 1..(i - 1) : s[j] # c
    ELSE 0

\* strings.Split on a one-character separator.
RECURSIVE split(_, _)
split(s, c) ==
    LET i == idxr(s, c) IN
    IF i = 0 THEN <<s>>
    ELSE <<SubSeq(s, 1, i - 1)>> \o split(SubSeq(s, i + 1, Len(s)), c)

DigitValue(c) == IndexIn(c, Digits) - 1
itoaDigit(n) == <<Digits[n + 1]>>

\* The Inheritance value: the levels in the order given, the attribute type
\* and the bind type or value.
badInheritance == <<"<","i","n","v","a","l","i","d","_","i","n","h","e","r","i","t","a","n","c","e",">">>

InhPrefix == <<"p","a","r","e","n","t","[">>

zeroInheritance == [init |-> FALSE, levels |-> <<>>, at |-> <<>>, bt |-> <<>>]

\* A level token is one decimal digit; -1 stands for a token that is none.
parseLevel(tok) ==
    IF Len(tok) = 1 /\ isDigit(tok[1]) THEN DigitValue(tok[1]) ELSE -1

InheritanceString(inh) ==
    IF ~inh.init THEN badInheritance
    ELSE InhPrefix
            \o Join([i \in 1..Len(inh.levels) |-> itoaDigit(inh.levels[i])], <<",">>)
            \o <<"]", ".">> \o inh.at \o <<"#">> \o inh.bt

ParseFailed == [val |-> zeroInheritance, err |-> TRUE]

parseInheritance(raw) ==
    IF Len(raw) = 0 THEN ParseFailed
    ELSE IF ~hasPfx(raw, InhPrefix) THEN ParseFailed
    ELSE LET rest == SubSeq(raw, Len(InhPrefix) + 1, Len(raw))
             close == idxr(rest, "]")
         IN
         IF close = 0 THEN ParseFailed
         ELSE LET toks == split(SubSeq(rest, 1, close - 1), ",")
                  lvls == [i \in 1..Len(toks) |-> parseLevel(toks[i])]
                  after == SubSeq(rest, close + 1, Len(rest))
              IN
              IF close = 1 THEN ParseFailed
              ELSE IF \E i \in 1..Len(lvls) : lvls[i] < 0 \/ lvls[i] > 9 THEN ParseFailed
              ELSE IF Len(after) = 0 \/ after[1] # "." THEN ParseFailed
              ELSE LET abv == SubSeq(after, 2, Len(after))
                       hash == idxr(abv, "#")
                   IN
                   IF hash = 0 THEN ParseFailed
                   ELSE IF ~isIdentifier(SubSeq(abv, 1, hash - 1)) THEN ParseFailed
                   ELSE IF hash = Len(abv) THEN ParseFailed
                   ELSE [val |-> [init |-> TRUE, levels |-> lvls,
                                  at |-> SubSeq(abv, 1, hash - 1),
                                  bt |-> SubSeq(abv, hash + 1, Len(abv))],
                         err |-> FALSE]

(***************************************************************************)
(* SecurityStrengthFactor                                                  *)
(***************************************************************************)

RECURSIVE itoa(_)
itoa(n) == IF n < 10 THEN <<Digits[n + 1]>> ELSE itoa(n \div 10) \o <<Digits[(n % 10) + 1]>>

IsNumber(t) == Len(t) > 0 /\ \A i \in 1..Len(t) : isDigit(t[i])

RECURSIVE atoi(_)
atoi(t) ==
    IF Len(t) = 1 THEN DigitValue(t[1])
    ELSE 10 * atoi(SubSeq(t, 1, Len(t) - 1)) + DigitValue(t[Len(t)])

MaxSSF == 256

WordsNone == {<<"n","o","n","e">>, <<"o","f","f">>}
WordsMax == {<<"m","a","x">>, <<"f","u","l","l">>}


\* SecurityStrengthFactor.Set
SSFSet(f, x) ==
    CASE x.typ = "int" -> IF x.v >= 0 /\ x.v <= MaxSSF THEN x.v ELSE f
      [] x.typ = "string" ->
            IF lc(x.v) \in WordsMax THEN MaxSSF
            ELSE IF lc(x.v) \in WordsNone THEN 0
            ELSE IF IsNumber(x.v)
                 THEN (IF atoi(x.v) <= MaxSSF THEN atoi(x.v) ELSE f)
                 ELSE 0
      [] OTHER -> f

SSFString(f) == itoa(f)

(***************************************************************************)
(* BindRule: a stackage.Condition over a bind keyword                      *)
(***************************************************************************)

bindRuleID == <<"b","i","n","d">>

\* BindRule.SetOperator: as TargetRule.SetOperator, over the bind keywords.
BindSetOperator(r, op) ==
    IF ~keywordAllowsComparisonOperator(Val("BindKeyword", matchBKW(RawKeyword(r))), op)
    THEN r
    ELSE IF op.typ \notin {"string", "ComparisonOperator"} THEN r
    ELSE LET cop == IF op.typ = "string" THEN matchCOP(op.v) ELSE op.v IN
         IF cop = badCop THEN r
         ELSE [r EXCEPT !.init = TRUE, !.op = cop]

\* A bind rule is quoted and, unlike a target rule, not parenthesized.
newBindRule(kw, op, ex) ==
    LET b == SetExpression(BindSetOperator(SetKeyword(badTargetRule, kw), op), ex) IN
    [b EXCEPT !.encap = TRUE, !.paren = FALSE, !.id = bindRuleID]

BR(kw, op, ex) == newBindRule(kw, op, ex)

BindRuleString(r) == IF IsZero(r) THEN <<>> ELSE ConditionString(r)

BindRuleValid(r) == ~IsZero(r) /\ ConditionValid(r)

(***************************************************************************)
(* Typed values and the comparison-operator methods they offer             *)
(***************************************************************************)

LDAPScheme == <<"l","d","a","p",":","/","/","/">>

\* A typed value: the Go type, the keyword it builds rules for, and the value
\* its rules carry as expression.
Typed(type, kw, ex) == [type |-> type, kw |-> kw, ex |-> ex]

SingleLevel == Typed("SearchScope", TargetScope, Val("string", <<"o","n","e","l","e","v","e","l">>))
BaseObject == Typed("SearchScope", TargetScope, Val("string", <<"b","a","s","e">>))
Subtree == Typed("SearchScope", TargetScope, Val("string", <<"s","u","b","t","r","e","e">>))

TDN(dn) == Typed("TargetDistinguishedName", Target, Val("string", LDAPScheme \o dn))
TTDN(dn) == Typed("TargetDistinguishedName", TargetTo, Val("string", LDAPScheme \o dn))
TFDN(dn) == Typed("TargetDistinguishedName", TargetFrom, Val("string", LDAPScheme \o dn))
Ctrl(oid) == Typed("ObjectIdentifier", TargetCtrl, Val("string", oid))
ExtOp(oid) == Typed("ObjectIdentifier", TargetExtOp, Val("string", oid))
Ctrls(oids) == Typed("ObjectIdentifiers", TargetCtrl, Stack(oids, FALSE))
ExtOps(oids) == Typed("ObjectIdentifiers", TargetExtOp, Stack(oids, FALSE))
Filter(f) == Typed("SearchFilter", TargetFilter, Val("string", f))
SSF(n) == Typed("SecurityStrengthFactor", BindSSF, Val("string", SSFString(n)))
ToD(t) == Typed("TimeOfDay", BindToD, Val("string", t))

BindTypes == {"SecurityStrengthFactor", "TimeOfDay"}

\* The comparison-operator methods each type has.
MethodsOf(type) ==
    CASE type = "SearchScope" -> {Eq}
      [] type \in BindTypes -> {Eq, Ne, Lt, Le, Gt, Ge}
      [] OTHER -> {Eq, Ne}

\* The rule the method for operator c returns: x.Eq(), x.Ne(), ...
Method(x, c) ==
    IF x.type \in BindTypes
    THEN BR(Val("BindKeyword", x.kw), Val("ComparisonOperator", c), x.ex)
    ELSE TR(Val("TargetKeyword", x.kw), Val("ComparisonOperator", c), x.ex)

\* targetRuleFuncMap / bindRuleFuncMap: operator to the rule its method returns.
targetRuleFuncMap(x) == [c \in MethodsOf(x.type) |-> Method(x, c)]

\* The zero TargetRuleMethods holds no map.
newTargetRuleMethods(m) ==
    IF DOMAIN m = {} THEN NilVal ELSE Val("TargetRuleMethods", m)

TRF(x) == newTargetRuleMethods(targetRuleFuncMap(x))

MethodsIsZero(r) == r.typ = "nil"

MethodsLen(r) == IF MethodsIsZero(r) THEN 0 ELSE Cardinality(DOMAIN r.v)

(***************************************************************************)
(* Permission, BindRules, PermissionBindRule and Instruction               *)
(***************************************************************************)

\* The rights in the order of their bits.
Rights ==
    << <<"r","e","a","d">>, <<"w","r","i","t","e">>, <<"a","d","d">>, <<"d","e","l","e","t","e">>, <<"s","e","a","r","c","h">>,
       <<"c","o","m","p","a","r","e">>, <<"s","e","l","f","w","r","i","t","e">>, <<"p","r","o","x","y">>, <<"i","m","p","o","r","t">>, <<"e","x","p","o","r","t">> >>

ReadAccess == 1
WriteAccess == 2
SearchAccess == 5
CompareAccess == 6

\* Allow(x...) / Deny(x...): the disposition and the set of rights shifted in.
Permission(allow, xs) ==
    Val("Permission", [allow |-> allow, rights |-> {xs[i] : i \in 1..Len(xs)}])

Allow(xs) == Permission(TRUE, xs)
Deny(xs) == Permission(FALSE, xs)

PermissionIsZero(p) == p.typ = "nil"

PermissionValid(p) == ~PermissionIsZero(p)

RECURSIVE RightsText(_, _)
RightsText(rs, i) ==
    IF i > Len(Rights) THEN <<>>
    ELSE LET rest == RightsText(rs, i + 1) IN
         IF i \in rs
         THEN (IF rest = <<>> THEN Rights[i] ELSE Rights[i] \o <<",">> \o rest)
         ELSE rest

PermissionString(p) ==
    (IF p.v.allow THEN <<"a","l","l","o","w">> ELSE <<"d","e","n","y">>)
        \o <<"(">> \o RightsText(p.v.rights, 1) \o <<")">>

\* And(): a boolean AND stack of bind rules; Paren() parenthesizes it.
And == Val("BindRules", [paren |-> FALSE, elems |-> <<>>])

Paren(s) == Val("BindRules", [s.v EXCEPT !.paren = TRUE])

RECURSIVE BindRulesPush(_, _)
BindRulesPush(s, xs) ==
    IF xs = <<>> THEN s
    ELSE BindRulesPush(
            IF BindRuleValid(xs[1])
            THEN Val("BindRules", [s.v EXCEPT !.elems = Append(@, xs[1])])
            ELSE s,
            Tail(xs))

SymbolicAnd == <<" ","A","N","D"," ">>

BindRulesString(s) ==
    LET body == Join([i \in 1..Len(s.v.elems) |-> BindRuleString(s.v.elems[i])],
                     SymbolicAnd)
    IN IF s.v.paren THEN <<"(", " ">> \o body \o <<" ", ")">> ELSE body

\* BindContext: a BindRule or a BindRules
BindContextValid(b) ==
    IF b.typ = "BindRule" THEN BindRuleValid(b.v)
    ELSE \A i \in 1..Len(b.v.elems) : BindRuleValid(b.v.elems[i])

BindContextLen(b) ==
    IF b.typ = "BindRule" THEN (IF IsZero(b.v) THEN 0 ELSE 1)
    ELSE Len(b.v.elems)

\* BindContext.ID: the ID the condition carries; a BindRules stack has the
\* bind-rule ID.
BindContextID(b) == IF b.typ = "BindRule" THEN b.v.id ELSE bindRuleID

BindContextString(b) ==
    IF b.typ = "BindRule" THEN BindRuleString(b.v) ELSE BindRulesString(b)

badPB == <<"<","i","n","v","a","l","i","d","_","p","b","r","u","l","e",">">>

badPermissionBindRule == [P |-> NilVal, B |-> NilVal]

\* PermissionBindRule.valid: "ok" for a nil error, "err" for an error, and
\* "panic" where Valid is called on a nil BindContext.
valid(r) ==
    IF ~PermissionValid(r.P) THEN "err"
    ELSE IF r.B.typ = "nil" THEN "panic"
    ELSE IF ~BindContextValid(r.B) THEN "err"
    ELSE IF BindContextLen(r.B) = 0 THEN "err"
    ELSE IF PermissionIsZero(r.P) THEN "err"
    ELSE IF BindContextID(r.B) # bindRuleID THEN "err"
    ELSE "ok"

Panic == Val("panic", 0)

PBR(P, B) ==
    LET r == [P |-> P, B |-> B] IN
    CASE valid(r) = "ok" -> Val("PermissionBindRule", r)
      [] valid(r) = "err" -> Val("PermissionBindRule", badPermissionBindRule)
      [] OTHER -> Panic

\* PermissionBindRule.string with the terminating semicolon left out.
string_noSemicolon(r) ==
    CASE valid(r) = "ok" -> PermissionString(r.P) \o SP \o BindContextString(r.B)
      [] OTHER -> badPB

\* PermissionBindRule.string; called on rules whose valid() does not panic
string(r) ==
    CASE valid(r) = "ok" ->
            PermissionString(r.P) \o SP \o BindContextString(r.B) \o <<";">>
      [] OTHER -> badPB

\* contains that compares the texts letter for letter.
pbrsContains_exact(s, x) ==
    IF Len(s) = 0 THEN FALSE
    ELSE IF x.typ \notin {"string", "PermissionBindRule"} THEN FALSE
    ELSE LET candidate == IF x.typ = "string" THEN x.v ELSE string(x.v) IN
         IF Len(candidate) = 0 THEN FALSE
         ELSE \E i \in 1..Len(s) : string(s[i]) = candidate

\* PermissionBindRules.contains
pbrsContains(s, x) ==
    IF Len(s) = 0 THEN FALSE
    ELSE IF x.typ \notin {"string", "PermissionBindRule"} THEN FALSE
    ELSE LET candidate == IF x.typ = "string" THEN x.v ELSE string(x.v) IN
         IF Len(candidate) = 0 THEN FALSE
         ELSE \E i \in 1..Len(s) : eq(string(s[i]), candidate)

\* PermissionBindRules.pushPolicy: TRUE when the value may be pushed
pbrsPushPolicy(s, x) ==
    IF pbrsContains(s, x) THEN FALSE
    ELSE IF x.typ = "PermissionBindRule" THEN valid(x.v) = "ok"
    ELSE FALSE

RECURSIVE pbrsPush(_, _)
pbrsPush(s, xs) ==
    IF xs = <<>> THEN s
    ELSE pbrsPush(IF pbrsPushPolicy(s, xs[1]) THEN Append(s, xs[1].v) ELSE s, Tail(xs))

PBRs(xs) == pbrsPush(<<>>, xs)

PermissionBindRulesString(s) == Join([i \in 1..Len(s) |-> string(s[i])], SP)

\* TargetRules.String: the rules, a space between two of them
TargetRulesString(s) == Join([i \in 1..Len(s) |-> TargetRuleString(s[i])], SP)

badACI == <<"<","i","n","v","a","l","i","d","_","a","c","i",">">>

\* ACI(name, TargetRules, PermissionBindRule...)
ACI(name, tgt, pbrs) == [ACL |-> name, T |-> tgt, PB |-> PBRs(pbrs)]

InstructionValid(i) == Len(i.ACL) > 0 /\ Len(i.PB) > 0

\* Instruction.String
InstructionString(i) ==
    IF ~InstructionValid(i) THEN badACI
    ELSE TargetRulesString(i.T)
            \o <<"(","v","e","r","s","i","o","n"," ","3",".","0",";"," ","a","c","l"," ","\"">> \o i.ACL \o <<"\"",";"," ">>
            \o PermissionBindRulesString(i.PB) \o <<")">>

(***************************************************************************)
(* SpecRule: one TargetRule, built by TR and changed by its setters        *)
(***************************************************************************)

KwInputs ==
    {Val("TargetKeyword", k) : k \in TargetKeywords \cup {badTKW}}
        \cup {Val("BindKeyword", k) : k \in BindKeywords}

\* The keywords the setters are exercised with: one of each kind.
KwSel ==
    {Val("TargetKeyword", k) :
        k \in {Target, TargetAttr, TargetExtOp, TargetScope, TargetFilter, badTKW}}
        \cup {Val("BindKeyword", BindSSF)}

OpInputs ==
    {Val("ComparisonOperator", c) : c \in Cops \cup {badCop}}
        \cup {Val("string", t) : t \in {<<"=">>, <<">","=">>, <<"E","q">>, <<"?">>}}
        \cup {OtherVal}

\* A stack of the first n sample values, in the default quotation style.
SampleStack(n) == Stack(SubSeq(SampleVals, 1, n), FALSE)

StackLens == {n \in 2..MaxStackLen : n <= Len(SampleVals)}

ExInputs ==
    {NilVal, Val("string", <<>>)}
        \cup {Val("string", v) : v \in ValPool}
        \cup {SampleStack(n) : n \in StackLens}

StyleInputs == {MultivalOuterQuotes, MultivalSliceQuotes}

Call(name, kw, op, ex, style) ==
    [name |-> name, kw |-> kw, op |-> op, ex |-> ex, style |-> style]

NoCall == Call("none", NilVal, NilVal, NilVal, 0)

TCall(name, x, idx, ret) == [name |-> name, arg |-> x, idx |-> idx, ret |-> ret]

NoTCall == TCall("none", NilVal, 0, NilVal)

RuleIdle == rule = badTargetRule /\ prev = badTargetRule /\ call = NoCall
CollectionIdle == trs = <<>> /\ tprev = <<>> /\ tcall = NoTCall /\ nrep = 0
FunIdle == arg = NilVal /\ res = NilVal

InitRule ==
    /\ rule = badTargetRule
    /\ prev = badTargetRule
    /\ call = NoCall
    /\ CollectionIdle
    /\ FunIdle

\* A rule is built once, by TR, and changed by its setters afterwards.
CallTRWith(KW) ==
    /\ call.name = "none"
    /\ \E kw \in KW, op \in OpInputs, ex \in ExInputs :
        /\ rule' = TR(kw, op, ex)
        /\ prev' = badTargetRule
        /\ call' = Call("TR", kw, op, ex, 0)
        /\ UNCHANGED <<collVars, funVars>>

CallTR == CallTRWith(KwSel)

CallSetKeyword ==
    \E kw \in KwSel :
        /\ rule' = SetKeyword(rule, kw)
        /\ prev' = rule
        /\ call' = Call("SetKeyword", kw, NilVal, NilVal, 0)
        /\ UNCHANGED <<collVars, funVars>>

CallSetOperator ==
    \E op \in OpInputs :
        /\ rule' = SetOperator(rule, op)
        /\ prev' = rule
        /\ call' = Call("SetOperator", NilVal, op, NilVal, 0)
        /\ UNCHANGED <<collVars, funVars>>

CallSetExpression ==
    \E ex \in ExInputs :
        /\ rule' = SetExpression(rule, ex)
        /\ prev' = rule
        /\ call' = Call("SetExpression", NilVal, NilVal, ex, 0)
        /\ UNCHANGED <<collVars, funVars>>

CallSetQuoteStyle ==
    \E style \in StyleInputs :
        /\ rule' = SetQuoteStyle(rule, style)
        /\ prev' = rule
        /\ call' = Call("SetQuoteStyle", NilVal, NilVal, NilVal, style)
        /\ UNCHANGED <<collVars, funVars>>

NextRule ==
    \/ CallTR
    \/ CallSetKeyword
    \/ CallSetOperator
    \/ CallSetExpression
    \/ CallSetQuoteStyle

SpecRule == InitRule /\ [][NextRule]_vars

(***************************************************************************)
(* SpecBuild: TR applied to every keyword, operator and expression         *)
(***************************************************************************)

BuildTR == CallTRWith(KwInputs)

NextBuild == BuildTR

SpecBuild == InitRule /\ [][NextBuild]_vars

(***************************************************************************)
(* Claims                                                                  *)
(***************************************************************************)

\* The operators each keyword registers, as the specification lists them.
RegisteredOps(k) ==
    CASE k \in {TargetScope, TargetAttrFilters} -> {Eq}
      [] k \in {BindSSF, BindToD} -> {Eq, Ne, Lt, Le, Gt, Ge}
      [] k \in TargetKeywords \cup BindKeywords -> {Eq, Ne}
      [] OTHER -> {}

NonEmptyExpr(x) ==
    \/ x.typ = "string" /\ Len(x.v) > 0
    \/ x.typ = "stack" /\ Len(x.v.vals) > 0

\* C1: a rule built by TR for one of the 20 keywords, with a comparison
\* operator (or the zero operator) and a non-empty expression, passes Valid()
\* if and only if the operator is registered for the keyword.
C1_ValidIffOperatorRegistered ==
    (/\ call.name = "TR"
     /\ call.kw.v \in TargetKeywords \cup BindKeywords
     /\ call.op.typ = "ComparisonOperator"
     /\ NonEmptyExpr(call.ex))
        => (TargetRuleValid(rule) <=> call.op.v \in RegisteredOps(call.kw.v))

\* C10: SetOperator with an operator that is not registered for the rule's
\* current keyword (the zero operator, an unknown text and a value of another
\* type included) leaves the rule as it was.
OperatorNamed(op) ==
    CASE op.typ = "ComparisonOperator" -> op.v
      [] op.typ = "string" /\ (\E c \in Cops : CopString(c) = op.v) ->
            CHOOSE c \in Cops : CopString(c) = op.v
      [] OTHER -> badCop

C10_SetOperatorNoOp ==
    (/\ call.name = "SetOperator"
     /\ OperatorNamed(call.op) \notin RegisteredOps(Keyword(prev)))
        => rule = prev

C10_Witness ==
    /\ call.name = "SetOperator"
    /\ call.op = Val("ComparisonOperator", Ne)
    /\ Keyword(prev) = TargetScope
    /\ prev.op = Eq
    /\ NonEmptyExpr(prev.ex)
    /\ rule = prev

\* C6: a rule over a multi-value keyword whose expression is a list of two or
\* more values renders one pair of quotes around the joined list when built,
\* and a pair around each element, with bare delimiters, after
\* SetQuoteStyle(MultivalSliceQuotes).
MultivalKeywords == {Target, TargetTo, TargetFrom, TargetExtOp, TargetCtrl, TargetAttr}

Quoted(v) == DQ \o v \o DQ

Rendered(r, value) ==
    <<"("," ">> \o r.kw \o SP \o CopString(r.op) \o SP \o value \o <<" ",")">>

OuterQuoted(vals) == Quoted(Join(vals, SymbolicOr))
SliceQuoted(vals) == Join([i \in 1..Len(vals) |-> Quoted(vals[i])], SymbolicOr)

C6_QuoteStyleDuality ==
    /\ (/\ call.name = "TR"
        /\ Keyword(rule) \in MultivalKeywords
        /\ call.ex.typ = "stack")
            => TargetRuleString(rule) = Rendered(rule, OuterQuoted(call.ex.v.vals))
    /\ (/\ call.name = "SetQuoteStyle"
        /\ call.style = MultivalSliceQuotes
        /\ Keyword(prev) \in MultivalKeywords
        /\ prev.ex.typ = "stack")
            => TargetRuleString(rule) = Rendered(prev, SliceQuoted(prev.ex.v.vals))

\* ( targetattr = "cn" || "sn" || "givenName" )
C6_Witness ==
    /\ call.name = "SetQuoteStyle"
    /\ call.style = MultivalSliceQuotes
    /\ TargetRuleString(prev) =
        <<"("," ","t","a","r","g","e","t","a","t","t","r"," ","="," ","\"","c","n"," ","|","|"," ","s","n"," ","|","|"," ","g","i","v","e","n","N","a","m","e","\""," ",")">>
    /\ TargetRuleString(rule) =
        <<"("," ","t","a","r","g","e","t","a","t","t","r"," ","="," ","\"","c","n","\""," ","|","|"," ","\"","s","n","\""," ","|","|"," ","\"","g","i","v","e","n","N","a","m","e","\""," ",")">>

(***************************************************************************)
(* Spec: one TargetRules collection and the calls that change it           *)
(***************************************************************************)

MaxReplace == 1     \* how many replace calls a run makes
MaxArgs == 2        \* how many arguments one TRs(...) call is given

CopVal(c) == Val("ComparisonOperator", c)
TKW(k) == Val("TargetKeyword", k)

\* The rules pushed: two on one keyword, one whose keyword is no Target
\* keyword, and the zero rule.
PoolRules ==
    { TR(TKW(Target), CopVal(Eq), Val("string", SampleVals[1])),
      TR(TKW(Target), CopVal(Ne), Val("string", SampleVals[1])),
      TR(TKW(badTKW), CopVal(Eq), Val("string", SampleVals[1])),
      badTargetRule }

RuleVal(r) == Val("TargetRule", r)

PoolVals == {RuleVal(r) : r \in PoolRules}

\* What TRs(x ...any) may be handed besides rules.
AnyVals == PoolVals \cup {Val("string", Target), NilVal}

\* The indices tried: either side of each end of the collection.
IdxInputs(s) == {-1, 0, 1, Len(s) - 1, Len(s)}

Init ==
    /\ trs = TRs(<<>>)
    /\ tprev = <<>>
    /\ tcall = NoTCall
    /\ nrep = 0
    /\ RuleIdle
    /\ FunIdle

CallTRs ==
    /\ tcall.name = "none"
    /\ \E xs \in SeqsUpTo(AnyVals, MaxArgs) :
        /\ trs' = TRs(xs)
        /\ tprev' = <<>>
        /\ tcall' = TCall("TRs", Val("args", xs), 0, NilVal)
    /\ UNCHANGED <<ruleVars, funVars, nrep>>

CallPush ==
    /\ \E x \in PoolVals :
        /\ trs' = Push(trs, <<x>>)
        /\ tprev' = trs
        /\ tcall' = TCall("Push", x, 0, NilVal)
    /\ UNCHANGED <<ruleVars, funVars, nrep>>

CallPop ==
    /\ trs' = PopRest(trs)
    /\ tprev' = trs
    /\ tcall' = TCall("Pop", NilVal, 0, RuleVal(PopElem(trs)))
    /\ UNCHANGED <<ruleVars, funVars, nrep>>

CallRemove ==
    /\ \E idx \in IdxInputs(trs) :
        /\ trs' = RemoveRest(trs, idx)
        /\ tprev' = trs
        /\ tcall' = TCall("remove", NilVal, idx, Val("bool", RemoveOk(trs, idx)))
    /\ UNCHANGED <<ruleVars, funVars, nrep>>

CallReplace ==
    /\ nrep < MaxReplace
    /\ nrep' = nrep + 1
    /\ \E x \in PoolVals, idx \in IdxInputs(trs) :
        /\ trs' = replace(trs, x, idx)
        /\ tprev' = trs
        /\ tcall' = TCall("replace", x, idx, NilVal)
    /\ UNCHANGED <<ruleVars, funVars>>

Next ==
    \/ CallTRs
    \/ CallPush
    \/ CallPop
    \/ CallRemove
    \/ CallReplace

Spec == Init /\ [][Next]_vars

(***************************************************************************)
(* Claims about the TargetRules collection                                 *)
(***************************************************************************)

IsRule(x) == x.typ = "TargetRule"

HasTargetKeyword(r) == ~IsZero(r) /\ Keyword(r) \in TargetKeywords

KeywordOccurs(s, k) == \E i \in 1..Len(s) : Keyword(s[i]) = k

\* The arguments of a TRs(...) call that are rules bearing Target keyword k.
ArgsOn(xs, k) == {i \in 1..Len(xs) : IsRule(xs[i]) /\ HasTargetKeyword(xs[i].v) /\ Keyword(xs[i].v) = k}

\* C2: a Push of a rule whose Target keyword already occurs in the collection
\* changes nothing, and of the arguments of TRs(...) bearing one Target
\* keyword only the first is kept.
C2_DuplicateKeywordRejected ==
    /\ (/\ tcall.name = "Push"
        /\ HasTargetKeyword(tcall.arg.v)
        /\ KeywordOccurs(tprev, Keyword(tcall.arg.v)))
            => trs = tprev
    /\ tcall.name = "TRs" =>
        \A k \in TargetKeywords :
            LET on == ArgsOn(tcall.arg.v, k)
                kept == {i \in 1..Len(trs) : Keyword(trs[i]) = k}
            IN on # {} =>
                /\ Cardinality(kept) = 1
                /\ \A i \in kept :
                    trs[i] = tcall.arg.v[CHOOSE m \in on : \A n \in on : m <= n].v

C2_Witness ==
    /\ tcall.name = "Push"
    /\ Len(tprev) = 1
    /\ HasTargetKeyword(tcall.arg.v)
    /\ Keyword(tprev[1]) = Keyword(tcall.arg.v)
    /\ tprev[1] # tcall.arg.v
    /\ trs = tprev

\* C3: whatever Push, Pop, remove and replace calls were made, no two
\* elements of the collection carry the same Target keyword and the
\* collection holds at most nine elements.
C3_KeywordsUniqueAndBounded ==
    /\ Len(trs) <= 9
    /\ \A i, j \in 1..Len(trs) :
        (i # j /\ HasTargetKeyword(trs[i]) /\ HasTargetKeyword(trs[j]))
            => Keyword(trs[i]) # Keyword(trs[j])

(***************************************************************************)
(* SpecInh: parseInheritance applied to raw texts                          *)
(***************************************************************************)

MaxLevels == 3      \* how many level tokens a raw text holds at most

LevelTokens == {<<"0">>, <<"5">>, <<"9">>, <<"1","0">>, <<"0","5">>, <<>>}

LevelLists == {Join(q, <<",">>) : q \in SeqsUpTo(LevelTokens, MaxLevels)}

RawInputs ==
    {<<>>} \cup
    { pre \o lv \o close \o dot \o at \o hash \o bt :
        pre \in {InhPrefix, <<"P","a","r","e","n","t","[">>},
        lv \in LevelLists,
        close \in {<<"]">>, <<")">>, <<"]","]">>},
        dot \in {<<".">>, <<>>},
        at \in {<<"m","a","n","a","g","e","r">>, <<"M","a","n","a","g","e","r">>, <<"a","-">>, <<"c","n",";","x","1">>},
        hash \in {<<"#">>, <<>>},
        bt \in {<<"U","S","E","R","D","N">>, <<>>} }

NotParsed == Val("none", 0)

InitInh ==
    /\ arg \in RawInputs
    /\ res = NotParsed
    /\ RuleIdle
    /\ CollectionIdle

CallParseInheritance ==
    /\ res = NotParsed
    /\ res' = Val("parsed", parseInheritance(arg))
    /\ UNCHANGED <<arg, ruleVars, collVars>>

NextInh == CallParseInheritance

SpecInh == InitInh /\ [][NextInh]_vars

\* The inheritance grammar:
\*   "parent[" digit {"," digit} "]." identifier "#" (bindtype | dn)
IsDigitText(t) == Len(t) = 1 /\ t[1] \in {Digits[i] : i \in 1..Len(Digits)}

IsLevels(t) ==
    /\ Len(t) > 0
    /\ \A i \in 1..Len(t) :
        IF i % 2 = 1 THEN IsDigitText(<<t[i]>>) ELSE t[i] = ","
    /\ Len(t) % 2 = 1

IdentChar(c) == isLower(c) \/ isUpper(c) \/ isDigit(c) \/ c \in {"-", ";"}

IsIdentifierText(t) ==
    /\ Len(t) > 0
    /\ isLower(t[1])
    /\ isLower(t[Len(t)]) \/ isUpper(t[Len(t)]) \/ isDigit(t[Len(t)])
    /\ \A i \in 1..Len(t) : IdentChar(t[i])

MatchesGrammar(raw) ==
    \E i, j \in 1..Len(raw) :
        /\ i > Len(InhPrefix) + 1
        /\ j > i + 2
        /\ j < Len(raw)
        /\ SubSeq(raw, 1, Len(InhPrefix)) = InhPrefix
        /\ IsLevels(SubSeq(raw, Len(InhPrefix) + 1, i - 1))
        /\ raw[i] = "]"
        /\ raw[i + 1] = "."
        /\ IsIdentifierText(SubSeq(raw, i + 2, j - 1))
        /\ raw[j] = "#"

\* C4: every raw text matching the inheritance grammar parses without an
\* error, and String() of the value parsed gives the raw text back.
C4_RoundTrip ==
    (res.typ = "parsed" /\ MatchesGrammar(arg))
        => /\ ~res.v.err
           /\ InheritanceString(res.v.val) = arg

\* parent[0,5,9].manager#USERDN
C4_Witness ==
    /\ res.typ = "parsed"
    /\ arg = <<"p","a","r","e","n","t","[","0",",","5",",","9","]",".","m","a","n","a","g","e","r","#","U","S","E","R","D","N">>
    /\ ~res.v.err
    /\ res.v.val.levels = <<0, 5, 9>>
    /\ InheritanceString(res.v.val) = arg

\* C5: every raw text violating the grammar is answered with an error and the
\* zero Inheritance, which renders the invalid-inheritance sentinel; an
\* error is returned exactly when the value returned is the zero value.
C5_FailFast ==
    res.typ = "parsed" =>
        /\ ~MatchesGrammar(arg) =>
            /\ res.v.err
            /\ res.v.val = zeroInheritance
            /\ InheritanceString(res.v.val) = badInheritance
        /\ res.v.err <=> res.v.val = zeroInheritance

\* parent[0]].manager#USERDN
C5_Witness ==
    /\ res.typ = "parsed"
    /\ arg = <<"p","a","r","e","n","t","[","0","]","]",".","m","a","n","a","g","e","r","#","U","S","E","R","D","N">>
    /\ res.v.err
    /\ InheritanceString(res.v.val) = badInheritance

(***************************************************************************)
(* SpecSSF: SecurityStrengthFactor.Set on a factor already holding a value *)
(***************************************************************************)

\* The values the factor holds before the call.
PriorFactors == {0, 1, 128, MaxSSF}

SSFWords ==
    { <<"m","A","x">>, <<"f","u","l","l">>, <<"n","O","n","E">>, <<"O","F","F">>,
      <<"F","U","L","L">>, <<"n","o","N","e">>, <<"m","a","x">>, <<"o","f","f">> }

SSFNoWords == { <<"f","a","r","t">>, <<"m","a","x","i","m","u","m">>, <<>>, <<"1","2","a">> }

SSFInputs ==
    {Val("int", i) : i \in -1..(MaxSSF + 1)}
        \cup {Val("string", itoa(i)) : i \in 0..(MaxSSF + 1)}
        \cup {Val("string", w) : w \in SSFWords \cup SSFNoWords}

InitSSF ==
    /\ res \in PriorFactors
    /\ arg = NilVal
    /\ RuleIdle
    /\ CollectionIdle

CallSSFSet ==
    /\ arg = NilVal
    /\ \E x \in SSFInputs :
        /\ arg' = Val("Set", [x |-> x, before |-> res])
        /\ res' = SSFSet(res, x)
    /\ UNCHANGED <<ruleVars, collVars>>

NextSSF == CallSSFSet

SpecSSF == InitSSF /\ [][NextSSF]_vars

\* C8: Set(i) and Set of the decimal text of i render i, for i in 0..256;
\* none/off render "0" and max/full "256" whatever the letter case; any
\* other word renders "0" whatever the factor held before.
DecimalTexts == {itoa(i) : i \in 0..MaxSSF}

IsDecimalText(t) == Len(t) > 0 /\ \A i \in 1..Len(t) : t[i] \in {Digits[d] : d \in 1..10}

C8_SSFSet ==
    arg.typ = "Set" =>
        LET x == arg.v.x IN
        /\ (x.typ = "int" /\ x.v \in 0..MaxSSF) => SSFString(res) = itoa(x.v)
        /\ (x.typ = "string" /\ x.v \in DecimalTexts) => SSFString(res) = x.v
        /\ (x.typ = "string" /\ \E w \in {<<"n","o","n","e">>, <<"o","f","f">>} : eq(x.v, w))
                => SSFString(res) = <<"0">>
        /\ (x.typ = "string" /\ \E w \in {<<"m","a","x">>, <<"f","u","l","l">>} : eq(x.v, w))
                => SSFString(res) = <<"2","5","6">>
        /\ (/\ x.typ = "string"
            /\ ~IsDecimalText(x.v)
            /\ ~\E w \in {<<"n","o","n","e">>, <<"o","f","f">>, <<"m","a","x">>, <<"f","u","l","l">>} : eq(x.v, w))
                => SSFString(res) = <<"0">>

\* Set("mAx") on a factor holding 128 renders "256"
C8_Witness ==
    /\ arg.typ = "Set"
    /\ arg.v.before = 128
    /\ arg.v.x = Val("string", <<"m","A","x">>)
    /\ SSFString(res) = <<"2","5","6">>

(***************************************************************************)
(* SpecTRF: the comparison-operator methods of a typed value               *)
(***************************************************************************)

SampleDNs == { <<"u","i","d","=","*",",","o","u","=","P","e","o","p","l","e",",","d","c","=","e","x","a","m","p","l","e",",","d","c","=","c","o","m">>, <<"c","n","=","a">> }

SampleOIDs == { <<"1",".","3",".","6",".","1",".","4",".","1",".","5","6","5","2","1",".","9","9","9",".","5">>, <<"1",".","3",".","6",".","1",".","4",".","1",".","5","6","5","2","1",".","9","9","9",".","7">> }

SampleFilters == { <<"(","&","(","o","b","j","e","c","t","C","l","a","s","s","=","e","m","p","l","o","y","e","e",")","(","t","e","r","m","i","n","a","t","e","d","=","F","A","L","S","E",")",")">> }

OIDLists == {<<a, b>> : a \in SampleOIDs, b \in SampleOIDs}

TypedInputs ==
    {SingleLevel, BaseObject, Subtree}
        \cup {TDN(d) : d \in SampleDNs}
        \cup {TTDN(d) : d \in SampleDNs}
        \cup {TFDN(d) : d \in SampleDNs}
        \cup {Ctrl(o) : o \in SampleOIDs}
        \cup {ExtOp(o) : o \in SampleOIDs}
        \cup {Ctrls(os) : os \in OIDLists}
        \cup {ExtOps(os) : os \in OIDLists}
        \cup {Filter(f) : f \in SampleFilters}
        \cup {SSF(n) : n \in 0..MaxSSF}

InitTRF ==
    /\ arg \in TypedInputs
    /\ res = NotParsed
    /\ RuleIdle
    /\ CollectionIdle

CallTRF ==
    /\ res = NotParsed
    /\ res' = TRF(arg)
    /\ UNCHANGED <<arg, ruleVars, collVars>>

NextTRF == CallTRF

SpecTRF == InitTRF /\ [][NextTRF]_vars

\* The operators the registry permits for a keyword.
PermittedOps(kw) ==
    IF kw \in DOMAIN permittedTargetComparisonOperators
    THEN {permittedTargetComparisonOperators[kw][i] :
            i \in 1..Len(permittedTargetComparisonOperators[kw])}
    ELSE IF kw \in DOMAIN permittedBindComparisonOperators
    THEN {permittedBindComparisonOperators[kw][i] :
            i \in 1..Len(permittedBindComparisonOperators[kw])}
    ELSE {}

ExpectedLen(type) ==
    CASE type = "SearchScope" -> 1
      [] type = "SecurityStrengthFactor" -> 6
      [] OTHER -> 2

RuleText(x, r) ==
    IF x.type \in BindTypes THEN BindRuleString(r) ELSE TargetRuleString(r)

ExpectedText(x, c) ==
    LET body == x.kw \o SP \o CopString(c) \o SP \o Quoted(ExprString(x.ex)) IN
    IF x.type \in BindTypes THEN body ELSE <<"(", " ">> \o body \o <<" ", ")">>

\* C9: the comparison-operator methods a typed value offers are exactly the
\* operators the registry permits for its keyword: one (Eq) for SearchScope,
\* two (Eq, Ne) for the DN, OID and filter target types, six for
\* SecurityStrengthFactor at every factor 0..256; and the rule each method
\* returns renders keyword, operator symbol and the quoted value.
C9_BuildersMatchRegistry ==
    res # NotParsed =>
        /\ res.typ = "TargetRuleMethods"
        /\ DOMAIN res.v = PermittedOps(arg.kw)
        /\ MethodsLen(res) = ExpectedLen(arg.type)
        /\ \A c \in DOMAIN res.v : RuleText(arg, res.v[c]) = ExpectedText(arg, c)

\* ( targetfilter != "(&(objectClass=employee)(terminated=FALSE))" )
C9_Witness ==
    /\ res # NotParsed
    /\ arg.type = "SearchFilter"
    /\ MethodsLen(res) = 2
    /\ TargetRuleString(res.v[Ne]) =
        <<"("," ","t","a","r","g","e","t","f","i","l","t","e","r"," ","!","="," ","\"","(","&","(","o","b","j","e","c","t","C","l","a","s","s","=","e","m","p","l","o","y","e","e",")","(","t","e","r","m","i","n","a","t","e","d","=","F","A","L","S","E",")",")","\""," ",")">>

(***************************************************************************)
(* SpecACI: an Instruction assembled from a name, a target rule and a      *)
(* permission with a bind rule                                             *)
(***************************************************************************)

SampleNames == { <<"L","i","m","i","t"," ","p","e","o","p","l","e"," ","a","c","c","e","s","s"," ","t","o"," ","t","i","m","e","f","r","a","m","e">>, <<"x">> }

SampleTimes == { << <<"1","7","3","0">>, <<"2","4","0","0">> >>, << <<"0","8","0","0">>, <<"1","2","0","0">> >> }

RightPool == {ReadAccess, WriteAccess, SearchAccess, CompareAccess}

MaxRights == 3

RightLists ==
    {xs \in SeqsUpTo(RightPool, MaxRights) :
        Len(xs) > 0 /\ \A i, j \in 1..Len(xs) : i # j => xs[i] # xs[j]}

BindShapes == {"and-paren", "and", "rule", "empty", "nil"}

ACIInputs ==
    [name : SampleNames, dn : SampleDNs, twice : BOOLEAN, allow : BOOLEAN,
     rights : RightLists, times : SampleTimes, bind : BindShapes]

notBefore(a) == Method(ToD(a.times[1]), Ge)
notAfter(a) == Method(ToD(a.times[2]), Lt)

BindOf(a) ==
    CASE a.bind = "and-paren" -> BindRulesPush(Paren(And), <<notBefore(a), notAfter(a)>>)
      [] a.bind = "and" -> BindRulesPush(And, <<notBefore(a), notAfter(a)>>)
      [] a.bind = "rule" -> Val("BindRule", notBefore(a))
      [] a.bind = "empty" -> Paren(And)
      [] OTHER -> NilVal

\* The steps of the assembly: TDN(dn).Eq(), TRs(C), Allow / Deny, PBR, ACI.
Assemble(a) ==
    LET C == RuleVal(Method(TDN(a.dn), Eq))
        tgt == IF a.twice THEN Push(TRs(<<C>>), <<C>>) ELSE TRs(<<C>>)
        perms == Permission(a.allow, a.rights)
        pbrule == PBR(perms, BindOf(a))
    IN IF pbrule = Panic THEN Panic
       ELSE Val("string", InstructionString(ACI(a.name, tgt, <<pbrule>>)))

InitACI ==
    /\ arg \in ACIInputs
    /\ res = NotParsed
    /\ RuleIdle
    /\ CollectionIdle

CallACI ==
    /\ res = NotParsed
    /\ res' = Assemble(arg)
    /\ UNCHANGED <<arg, ruleVars, collVars>>

NextACI == CallACI

SpecACI == InitACI /\ [][NextACI]_vars

\* The texts the parts are to render, written out.
TargetBlockText(a) == <<"("," ","t","a","r","g","e","t"," ","="," ","\"","l","d","a","p",":","/","/","/">> \o a.dn \o <<"\""," ",")">>

TimeWindowText(a) ==
    <<"t","i","m","e","o","f","d","a","y"," ",">","="," ","\"">> \o a.times[1] \o <<"\""," ","A","N","D"," ","t","i","m","e","o","f","d","a","y"," ","<"," ","\"">> \o a.times[2] \o <<"\"">>

BindText(a) ==
    CASE a.bind = "and-paren" -> <<"(", " ">> \o TimeWindowText(a) \o <<" ", ")">>
      [] a.bind = "and" -> TimeWindowText(a)
      [] OTHER -> <<"t","i","m","e","o","f","d","a","y"," ",">","="," ","\"">> \o a.times[1] \o <<"\"">>

PermissionText(a) ==
    IF a.allow /\ a.rights = <<ReadAccess, CompareAccess, SearchAccess>>
    THEN <<"a","l","l","o","w","(","r","e","a","d",",","s","e","a","r","c","h",",","c","o","m","p","a","r","e",")">>
    ELSE PermissionString(Permission(a.allow, a.rights))

\* C7: an Instruction built from a name, a target-rule block and a
\* PermissionBindRule renders the target-rule block, then
\* (version 3.0; acl "<name>"; then <permission> <bind-rule>; and a closing
\* parenthesis; the rights (read, compare, search) render
\* allow(read,search,compare) and the parenthesized AND of two timeofday
\* conditions renders ( timeofday >= "1730" AND timeofday < "2400" ).
C7_EndToEndAssembly ==
    (res # NotParsed /\ arg.bind \in {"and-paren", "and", "rule"}) =>
        res = Val("string",
                  TargetBlockText(arg)
                    \o <<"(","v","e","r","s","i","o","n"," ","3",".","0",";"," ","a","c","l"," ","\"">> \o arg.name \o <<"\"",";"," ">>
                    \o PermissionText(arg) \o SP \o BindText(arg) \o <<";">>
                    \o <<")">>)

C7_Witness ==
    /\ arg \in ACIInputs
    /\ arg.rights = <<ReadAccess, CompareAccess, SearchAccess>>
    /\ arg.bind = "and-paren"
    /\ res = Val("string",
        <<"("," ","t","a","r","g","e","t"," ","="," ","\"","l","d","a","p",":","/","/","/","u","i","d","=","*",",","o","u","=","P","e","o","p","l","e",",","d","c","=","e","x","a","m","p","l","e",",","d","c","=","c","o","m","\""," ",")","(","v","e","r","s","i","o","n"," ","3",".","0",";"," ","a","c","l"," ","\"","L","i","m","i","t"," ","p","e","o","p","l","e"," ","a","c","c","e","s","s"," ","t","o"," ","t","i","m","e","f","r","a","m","e","\"",";"," ","a","l","l","o","w","(","r","e","a","d",",","s","e","a","r","c","h",",","c","o","m","p","a","r","e",")"," ","("," ","t","i","m","e","o","f","d","a","y"," ",">","="," ","\"","1","7","3","0","\""," ","A","N","D"," ","t","i","m","e","o","f","d","a","y"," ","<"," ","\"","2","4","0","0","\""," ",")",";",")">>)

(***************************************************************************)
(* PermissionBindRules: Push, Pop and Index                                *)
(***************************************************************************)

\* A Push or PBRs(...) call does not return when valid() is reached on a rule
\* with a permission and a nil BindContext.
pbrPanics(x) == x.typ = "PermissionBindRule" /\ valid(x.v) = "panic"

pbrsPanics(xs) == \E i \in 1..Len(xs) : pbrPanics(xs[i])

\* The arguments handled before the call stops.
pbrsHandled(xs) ==
    IF pbrsPanics(xs)
    THEN SubSeq(xs, 1, (CHOOSE i \in 1..Len(xs) :
                            pbrPanics(xs[i]) /\ \A j \in 1..(i - 1) : ~pbrPanics(xs[j])) - 1)
    ELSE xs

\* PermissionBindRules.Pop: the collection left and the element handed out.
pbrsPopRest(s) == IF Len(s) = 0 THEN s ELSE SubSeq(s, 1, Len(s) - 1)
pbrsPopElem(s) == IF Len(s) = 0 THEN badPermissionBindRule ELSE s[Len(s)]

\* PermissionBindRules.Index, by a zero-based index.
pbrsIndex(s, idx) == IF idx >= 0 /\ idx < Len(s) THEN s[idx + 1] ELSE badPermissionBindRule

(***************************************************************************)
(* SpecStacks: a TargetRules or a PermissionBindRules collection under     *)
(* Push, Pop, Index and remove                                             *)
(***************************************************************************)

PBRVal(r) == Val("PermissionBindRule", r)

UserDN(dn) ==
    Val("BindRule", BR(Val("BindKeyword", BindUDN), CopVal(Eq), Val("string", LDAPScheme \o dn)))

\* Two rules whose texts differ in letter case only, one with another
\* disposition, the zero rule, and a rule composed with a nil BindContext.
PoolPBRs ==
    { PBR(Allow(<<ReadAccess>>), UserDN(<<"c","n","=","a">>)),
      PBR(Allow(<<ReadAccess>>), UserDN(<<"C","N","=","A">>)),
      PBR(Deny(<<ReadAccess>>), UserDN(<<"c","n","=","a">>)),
      PBRVal(badPermissionBindRule),
      PBRVal([P |-> Allow(<<ReadAccess>>), B |-> NilVal]) }

\* What Push(x ...any) may be handed besides rules.
AnyPBRVals ==
    PoolPBRs \cup {Val("string", <<"a","l","l","o","w","(","r","e","a","d",")"," ","u","s","e","r","d","n"," ","="," ","\"","l","d","a","p",":","/","/","/","c","n","=","a","\"",";">>), NilVal}

KindTRs == Val("kind", "TargetRules")
KindPBRs == Val("kind", "PermissionBindRules")

Crashed == tcall.ret = Panic

InitStacks ==
    /\ trs = <<>>
    /\ tprev = <<>>
    /\ tcall = NoTCall
    /\ nrep = 0
    /\ arg = NilVal
    /\ res = NilVal
    /\ RuleIdle

NewTRs ==
    /\ arg = NilVal
    /\ \E xs \in SeqsUpTo(AnyVals, MaxArgs) :
        /\ trs' = TRs(xs)
        /\ tcall' = TCall("TRs", Val("args", xs), 0, NilVal)
    /\ arg' = KindTRs
    /\ UNCHANGED <<ruleVars, tprev, nrep, res>>

NewPBRs ==
    /\ arg = NilVal
    /\ \E xs \in SeqsUpTo(AnyPBRVals, MaxArgs) :
        /\ trs' = PBRs(pbrsHandled(xs))
        /\ tcall' = TCall("PBRs", Val("args", xs), 0,
                          IF pbrsPanics(xs) THEN Panic ELSE NilVal)
    /\ arg' = KindPBRs
    /\ UNCHANGED <<ruleVars, tprev, nrep, res>>

PushTRs ==
    /\ arg = KindTRs
    /\ \E xs \in SeqsUpTo(PoolVals, MaxArgs) :
        /\ Len(xs) > 0
        /\ trs' = Push(trs, xs)
        /\ tprev' = trs
        /\ tcall' = TCall("Push", Val("args", xs), 0, NilVal)
    /\ UNCHANGED <<ruleVars, funVars, nrep>>

PushPBRs ==
    /\ arg = KindPBRs
    /\ ~Crashed
    /\ \E xs \in SeqsUpTo(AnyPBRVals, MaxArgs) :
        /\ Len(xs) > 0
        /\ trs' = pbrsPush(trs, pbrsHandled(xs))
        /\ tprev' = trs
        /\ tcall' = TCall("Push", Val("args", xs), 0,
                          IF pbrsPanics(xs) THEN Panic ELSE NilVal)
    /\ UNCHANGED <<ruleVars, funVars, nrep>>

PopTRs ==
    /\ arg = KindTRs
    /\ trs' = PopRest(trs)
    /\ tprev' = trs
    /\ tcall' = TCall("Pop", NilVal, 0, RuleVal(PopElem(trs)))
    /\ UNCHANGED <<ruleVars, funVars, nrep>>

PopPBRs ==
    /\ arg = KindPBRs
    /\ ~Crashed
    /\ trs' = pbrsPopRest(trs)
    /\ tprev' = trs
    /\ tcall' = TCall("Pop", NilVal, 0, PBRVal(pbrsPopElem(trs)))
    /\ UNCHANGED <<ruleVars, funVars, nrep>>

IndexTRs ==
    /\ arg = KindTRs
    /\ \E idx \in IdxInputs(trs) :
        tcall' = TCall("Index", NilVal, idx, RuleVal(Index(trs, idx)))
    /\ tprev' = trs
    /\ UNCHANGED <<ruleVars, funVars, nrep, trs>>

IndexPBRs ==
    /\ arg = KindPBRs
    /\ ~Crashed
    /\ \E idx \in IdxInputs(trs) :
        tcall' = TCall("Index", NilVal, idx, PBRVal(pbrsIndex(trs, idx)))
    /\ tprev' = trs
    /\ UNCHANGED <<ruleVars, funVars, nrep, trs>>

RemoveTRs ==
    /\ arg = KindTRs
    /\ \E idx \in IdxInputs(trs) :
        /\ trs' = RemoveRest(trs, idx)
        /\ tcall' = TCall("remove", NilVal, idx, Val("bool", RemoveOk(trs, idx)))
    /\ tprev' = trs
    /\ UNCHANGED <<ruleVars, funVars, nrep>>

NextStacks ==
    \/ NewTRs
    \/ NewPBRs
    \/ PushTRs
    \/ PushPBRs
    \/ PopTRs
    \/ PopPBRs
    \/ IndexTRs
    \/ IndexPBRs
    \/ RemoveTRs

SpecStacks == InitStacks /\ [][NextStacks]_vars

\* What the push policy of each collection is to refuse.
IsPBR(x) == x.typ = "PermissionBindRule"

PBRText(r) == PermissionString(r.P) \o SP \o BindContextString(r.B) \o <<";">>

PBRIsValid(r) ==
    /\ r.P.typ = "Permission"
    /\ r.B.typ \in {"BindRule", "BindRules"}
    /\ BindContextLen(r.B) > 0

RefusedBy(kind, s, x) ==
    IF kind = KindTRs
    THEN \/ ~IsRule(x)
         \/ IsZero(x.v)
         \/ HasTargetKeyword(x.v) /\ KeywordOccurs(s, Keyword(x.v))
         \/ Len(s) >= TargetRulesCap
    ELSE \/ ~IsPBR(x)
         \/ ~PBRIsValid(x.v)
         \/ \E i \in 1..Len(s) : eq(PBRText(s[i]), PBRText(x.v))

Refused(s, x) == RefusedBy(arg, s, x)

RECURSIVE Accepted(_, _)
Accepted(s, xs) ==
    IF xs = <<>> THEN s
    ELSE Accepted(IF Refused(s, xs[1]) THEN s ELSE Append(s, xs[1].v), Tail(xs))

\* C11: a Push of several items handles each item on its own: the items the
\* push policy refuses (wrong type, zero rule or duplicate keyword for
\* TargetRules; wrong type, invalid or duplicate rule for
\* PermissionBindRules) are dropped, the others are appended in their order,
\* and the call returns.
C11_PushItemsIndependent ==
    tcall.name = "Push" =>
        /\ ~Crashed
        /\ trs = Accepted(tprev, tcall.arg.v)

\* Push(zero rule, target rule) on an empty TargetRules keeps the second item
C11_Witness ==
    /\ arg = KindTRs
    /\ tcall.name = "Push"
    /\ tprev = <<>>
    /\ Len(tcall.arg.v) = 2
    /\ IsZero(tcall.arg.v[1].v)
    /\ trs = <<tcall.arg.v[2].v>>

\* The same, for the calls that return.
C11_WhenPushReturns ==
    (tcall.name = "Push" /\ ~Crashed) => trs = Accepted(tprev, tcall.arg.v)

\* C12: Pop on a non-empty collection hands out the last element and leaves
\* the others; a Pop right after an accepted Push(x) hands out x and leaves
\* the collection as it was before the Push, and x can be pushed again.
PushedOne ==
    /\ tcall.name = "Push"
    /\ Len(tcall.arg.v) = 1
    /\ Len(trs) = Len(tprev) + 1

C12_PopLast ==
    (tcall.name = "Pop" /\ Len(tprev) > 0) =>
        /\ tcall.ret.v = tprev[Len(tprev)]
        /\ Len(trs) = Len(tprev) - 1
        /\ trs = SubSeq(tprev, 1, Len(tprev) - 1)

C12_PushThenPop ==
    (PushedOne /\ tcall'.name = "Pop") =>
        /\ tcall'.ret = tcall.arg.v[1]
        /\ trs' = tprev
        /\ ~RefusedBy(arg, trs', tcall.arg.v[1])
        /\ (IF arg = KindTRs
            THEN Push(trs', tcall.arg.v) = trs
            ELSE pbrsPush(trs', tcall.arg.v) = trs)

C12_PopIsLIFO == [](C12_PopLast) /\ [][C12_PushThenPop]_vars

C12_Witness ==
    /\ arg = KindPBRs
    /\ tcall.name = "Pop"
    /\ Len(tprev) = 2
    /\ tcall.ret = PBRVal(tprev[2])
    /\ trs = <<tprev[1]>>

\* C13: Pop on an empty collection, and Index or remove with an index below
\* 0 or not below Len(), hand out the zero element (FALSE for remove) and
\* leave the collection as it was.
ZeroElement == IF arg = KindTRs THEN RuleVal(badTargetRule) ELSE PBRVal(badPermissionBindRule)

OutOfRange(idx, s) == idx < 0 \/ idx >= Len(s)

C13_OutOfRangeIsZero ==
    /\ (tcall.name = "Pop" /\ Len(tprev) = 0) =>
            tcall.ret = ZeroElement /\ trs = tprev
    /\ (tcall.name = "Index" /\ OutOfRange(tcall.idx, tprev)) =>
            tcall.ret = ZeroElement /\ trs = tprev
    /\ (tcall.name = "remove" /\ OutOfRange(tcall.idx, tprev)) =>
            tcall.ret = Val("bool", FALSE) /\ trs = tprev

C13_Witness ==
    /\ arg = KindTRs
    /\ tcall.name = "Index"
    /\ tcall.idx = -1
    /\ Len(tprev) = 2
    /\ tcall.ret = RuleVal(badTargetRule)
    /\ trs = tprev

\* C14: in a PermissionBindRules collection no two elements have the same
\* text, letter case set aside, and every element is a valid rule; a Push of
\* a rule whose text an element already has leaves the collection as it was.
C14_PBRsUniqueByText ==
    arg = KindPBRs =>
        /\ \A i, j \in 1..Len(trs) : i # j => ~eq(PBRText(trs[i]), PBRText(trs[j]))
        /\ \A i \in 1..Len(trs) : PBRIsValid(trs[i]) /\ valid(trs[i]) = "ok"
        /\ (/\ tcall.name = "Push"
            /\ Len(tcall.arg.v) = 1
            /\ IsPBR(tcall.arg.v[1])
            /\ PBRIsValid(tcall.arg.v[1].v)
            /\ \E i \in 1..Len(tprev) : eq(PBRText(tprev[i]), PBRText(tcall.arg.v[1].v)))
                => trs = tprev

\* a rule differing from the one held in letter case only is refused
C14_Witness ==
    /\ arg = KindPBRs
    /\ tcall.name = "Push"
    /\ Len(tcall.arg.v) = 1
    /\ IsPBR(tcall.arg.v[1])
    /\ Len(tprev) = 1
    /\ PBRIsValid(tcall.arg.v[1].v)
    /\ PBRText(tprev[1]) # PBRText(tcall.arg.v[1].v)
    /\ eq(PBRText(tprev[1]), PBRText(tcall.arg.v[1].v))
    /\ trs = tprev

(***************************************************************************)
(* SpecPad: the process-wide flags RulePadding and StackPadding, written   *)
(* between the constructions of rules and collections                      *)
(***************************************************************************)

\* The collections with the padding their constructor gave them:
\* NoPadding(!StackPadding) in TRs and in PBRs.
TRsWith(xs, StackPadding) == [nopad |-> ~StackPadding, elems |-> TRs(xs)]
PBRsWith(xs, StackPadding) == [nopad |-> ~StackPadding, elems |-> PBRs(xs)]

MaxBuilt == 3       \* how many instances a run builds

Flags(rp, sp) == [RulePadding |-> rp, StackPadding |-> sp]

\* An instance built, with the value its flag had when it was built.
Built(kind, at, inst) == [kind |-> kind, at |-> at, inst |-> inst]

PadRules ==
    { <<TKW(Target), CopVal(Eq), Val("string", SampleVals[1])>>,
      <<TKW(TargetScope), CopVal(Eq), Val("string", SampleVals[2])>> }

\* RulePadding and StackPadding are true when the package is loaded.
InitPad ==
    /\ arg = Flags(TRUE, TRUE)
    /\ res = <<>>
    /\ RuleIdle
    /\ CollectionIdle

SetRulePadding ==
    /\ \E b \in BOOLEAN : arg' = [arg EXCEPT !.RulePadding = b]
    /\ UNCHANGED <<res, ruleVars, collVars>>

SetStackPadding ==
    /\ \E b \in BOOLEAN : arg' = [arg EXCEPT !.StackPadding = b]
    /\ UNCHANGED <<res, ruleVars, collVars>>

BuildTargetRule ==
    /\ Len(res) < MaxBuilt
    /\ \E a \in PadRules :
        res' = Append(res, Built("TargetRule", arg.RulePadding,
                                 newTargetRule(a[1], a[2], a[3], arg.RulePadding)))
    /\ UNCHANGED <<arg, ruleVars, collVars>>

BuildTargetRules ==
    /\ Len(res) < MaxBuilt
    /\ \E xs \in SeqsUpTo({x \in PoolVals : ~IsZero(x.v)}, 1) :
        res' = Append(res, Built("TargetRules", arg.StackPadding,
                                 TRsWith(xs, arg.StackPadding)))
    /\ UNCHANGED <<arg, ruleVars, collVars>>

BuildPermissionBindRules ==
    /\ Len(res) < MaxBuilt
    /\ \E xs \in SeqsUpTo({x \in PoolPBRs : valid(x.v) = "ok"}, 1) :
        res' = Append(res, Built("PermissionBindRules", arg.StackPadding,
                                 PBRsWith(xs, arg.StackPadding)))
    /\ UNCHANGED <<arg, ruleVars, collVars>>

NextPad ==
    \/ SetRulePadding
    \/ SetStackPadding
    \/ BuildTargetRule
    \/ BuildTargetRules
    \/ BuildPermissionBindRules

SpecPad == InitPad /\ [][NextPad]_vars

\* The text of a target rule with and without padding, written out.
PaddedText(r) ==
    <<"(", " ">> \o r.kw \o SP \o CopString(r.op) \o SP \o Quoted(ExprString(r.ex)) \o <<" ", ")">>

UnpaddedText(r) ==
    <<"(">> \o r.kw \o CopString(r.op) \o Quoted(ExprString(r.ex)) \o <<")">>

PaddingOf(b) == ~b.inst.nopad

C15_PaddingAsBuilt ==
    \A i \in 1..Len(res) :
        /\ PaddingOf(res[i]) = res[i].at
        /\ res[i].kind = "TargetRule" =>
            TargetRuleString(res[i].inst) =
                IF res[i].at THEN PaddedText(res[i].inst) ELSE UnpaddedText(res[i].inst)

C15_BuiltStaysAsBuilt ==
    /\ Len(res') >= Len(res)
    /\ \A i \in 1..Len(res) : res'[i] = res[i]
    /\ Len(res') > Len(res) =>
        res'[Len(res')].at =
            IF res'[Len(res')].kind = "TargetRule" THEN arg.RulePadding ELSE arg.StackPadding

\* C15: RulePadding and StackPadding are read when an instance is built and
\* at no other time: a write of either flag leaves every TargetRule,
\* TargetRules and PermissionBindRules built before it with the padding and
\* the text it had, an instance built after it takes the new value, and
\* whatever the order of writes and constructions each instance has the
\* padding the flag gave it when it was built.
C15_PaddingReadAtConstruction == [](C15_PaddingAsBuilt) /\ [][C15_BuiltStaysAsBuilt]_vars

\* a padded rule, the flag written, an unpadded rule and a collection built
C15_Witness ==
    /\ Len(res) = 3
    /\ res[1].kind = "TargetRule" /\ res[1].at
    /\ res[2].kind = "TargetRule" /\ ~res[2].at
    /\ res[1].inst.kw = res[2].inst.kw
    /\ TargetRuleString(res[1].inst) = <<"("," ","t","a","r","g","e","t"," ","="," ","\"","c","n","\""," ",")">>
    /\ TargetRuleString(res[2].inst) = <<"(","t","a","r","g","e","t","=","\"","c","n","\"",")">>
    /\ res[3].kind = "TargetRules" /\ res[3].at
    /\ arg = Flags(TRUE, TRUE)

(***************************************************************************)
(* SpecPBR: PermissionBindRule.Valid, PBR and PermissionBindRule.String    *)
(* over every pairing of a Permission with a BindContext                   *)
(***************************************************************************)

\* PermissionBindRule.Valid: the error returned, unless the call panics
pbrValid(r) ==
    CASE valid(r) = "ok" -> Val("error", "nil")
      [] valid(r) = "err" -> Val("error", "err")
      [] OTHER -> Panic

\* PermissionBindRule.String
pbrString(r) == IF valid(r) = "panic" THEN Panic ELSE Val("string", string(r))

PermissionInputs ==
    {NilVal} \cup {Permission(a, xs) : a \in BOOLEAN, xs \in RightLists}

BindContextInputs ==
    { NilVal,
      UserDN(<<"c","n","=","a">>),
      Val("BindRule", badTargetRule),
      Val("BindRule", TR(TKW(Target), CopVal(Eq), Val("string", LDAPScheme \o <<"c","n","=","a">>))),
      Paren(And),
      BindRulesPush(Paren(And), <<Method(ToD(<<"1","7","3","0">>), Ge), Method(ToD(<<"2","4","0","0">>), Lt)>>) }

PBRInputs == [P : PermissionInputs, B : BindContextInputs]

InitPBR ==
    /\ arg \in PBRInputs
    /\ res = NotParsed
    /\ RuleIdle
    /\ CollectionIdle

CallPBRValid ==
    /\ res = NotParsed
    /\ res' = [call |-> "Valid", out |-> pbrValid(arg)]
    /\ UNCHANGED <<arg, ruleVars, collVars>>

CallPBR ==
    /\ res = NotParsed
    /\ res' = [call |-> "PBR", out |-> PBR(arg.P, arg.B)]
    /\ UNCHANGED <<arg, ruleVars, collVars>>

CallPBRString ==
    /\ res = NotParsed
    /\ res' = [call |-> "String", out |-> pbrString(arg)]
    /\ UNCHANGED <<arg, ruleVars, collVars>>

NextPBR ==
    \/ CallPBRValid
    \/ CallPBR
    \/ CallPBRString

SpecPBR == InitPBR /\ [][NextPBR]_vars

\* C16: no call is fatal: for every Permission and BindContext, a
\* Permission paired with a nil BindContext included, the call returns; and
\* where the pair is no valid rule, Valid() returns an error, PBR the zero
\* PermissionBindRule and String() the text <invalid_pbrule>.
C16_NeverFatal ==
    res # NotParsed =>
        /\ res.out # Panic
        /\ ~PBRIsValid(arg) =>
            CASE res.call = "Valid" -> res.out = Val("error", "err")
              [] res.call = "PBR" -> res.out = PBRVal(badPermissionBindRule)
              [] OTHER -> res.out = Val("string", <<"<","i","n","v","a","l","i","d","_","p","b","r","u","l","e",">">>)

\* Allow(read) paired with a nil BindContext, and Valid() called
C16_Witness ==
    /\ res # NotParsed
    /\ res.call = "Valid"
    /\ arg.P = Allow(<<ReadAccess>>)
    /\ arg.B = NilVal

(***************************************************************************)
(* SpecAllows: keywordAllowsComparisonOperator over keywords and operators *)
(* given as typed values, as text and as values of other types             *)
(***************************************************************************)

KeywordInputs ==
    {Val("TargetKeyword", k) : k \in TargetKeywords \cup {badTKW}}
        \cup {Val("BindKeyword", k) : k \in BindKeywords \cup {badBKW}}
        \cup {Val("string", k) : k \in TargetKeywords \cup BindKeywords}
        \cup {Val("string", k) : k \in {<<"T","a","r","g","e","t","S","c","o","p","e">>, <<"U","S","E","R","D","N">>, <<"S","S","F">>, <<"b","o","g","u","s">>, <<>>, badTKW, badBKW}}
        \cup {NilVal, OtherVal}

OperatorInputs ==
    {Val("ComparisonOperator", c) : c \in Cops \cup {badCop}}
        \cup {Val("string", CopString(c)) : c \in Cops \cup {badCop}}
        \cup {Val("string", <<"=","=">>), NilVal, OtherVal}

InitAllows ==
    /\ arg \in [kw : KeywordInputs, op : OperatorInputs]
    /\ res = NotParsed
    /\ RuleIdle
    /\ CollectionIdle

CallKeywordAllows ==
    /\ res = NotParsed
    /\ res' = Val("bool", keywordAllowsComparisonOperator(arg.kw, arg.op))
    /\ UNCHANGED <<arg, ruleVars, collVars>>

NextAllows == CallKeywordAllows

SpecAllows == InitAllows /\ [][NextAllows]_vars

\* The keyword an operand names: a typed keyword itself, a text the keyword
\* it spells; the empty text where it names none.
KeywordNamed(kw) ==
    CASE kw.typ \in {"TargetKeyword", "BindKeyword"} -> kw.v
      [] kw.typ = "string" /\ lc(kw.v) \in TargetKeywords \cup BindKeywords -> lc(kw.v)
      [] OTHER -> <<>>

\* The canonical text of a typed operand; any other operand as it is.
AsText(x) ==
    CASE x.typ \in {"TargetKeyword", "BindKeyword"} -> Val("string", x.v)
      [] x.typ = "ComparisonOperator" -> Val("string", CopString(x.v))
      [] OTHER -> x

\* C17: keywordAllowsComparisonOperator answers true exactly when the
\* operator is one the keyword registers (Eq alone for targetscope and
\* targetattrfilters, all six for ssf and timeofday, Eq and Ne for the other
\* keywords); it answers false for a zero or unknown keyword, a zero operator
\* and operands of other types; and the answer for typed operands is the
\* answer for their canonical text.
C17_AllowsExactlyRegistered ==
    res # NotParsed =>
        /\ res.v = (OperatorNamed(arg.op) \in RegisteredOps(KeywordNamed(arg.kw)))
        /\ res.v = keywordAllowsComparisonOperator(AsText(arg.kw), AsText(arg.op))

C17_Witness ==
    /\ res # NotParsed
    /\ arg.kw = Val("BindKeyword", BindSSF)
    /\ arg.op = Val("ComparisonOperator", Ge)
    /\ res.v

(***************************************************************************)
(* SpecMethods: TargetRuleMethods.Index, Len, IsZero and Valid, and the    *)
(* resolution of an operator from text                                     *)
(***************************************************************************)

\* ComparisonOperator.Context: the short name of the operator
CopContext(c) ==
    CASE c = Eq -> <<"E","q">>
      [] c = Ne -> <<"N","e">>
      [] c = Lt -> <<"L","t">>
      [] c = Le -> <<"L","e">>
      [] c = Gt -> <<"G","t">>
      [] c = Ge -> <<"G","e">>
      [] OTHER  -> <<>>

\* ComparisonOperator.Description: the long name of the operator
CopDescription(c) ==
    CASE c = Eq -> <<"E","q","u","a","l"," ","T","o">>
      [] c = Ne -> <<"N","o","t"," ","E","q","u","a","l"," ","T","o">>
      [] c = Lt -> <<"L","e","s","s"," ","T","h","a","n">>
      [] c = Le -> <<"L","e","s","s"," ","T","h","a","n"," ","O","r"," ","E","q","u","a","l">>
      [] c = Gt -> <<"G","r","e","a","t","e","r"," ","T","h","a","n">>
      [] c = Ge -> <<"G","r","e","a","t","e","r"," ","T","h","a","n"," ","O","r"," ","E","q","u","a","l">>
      [] OTHER  -> <<>>

strInSliceFold(str, slice) == \E i \in 1..Len(slice) : eq(str, slice[i])

\* What Index returns when nothing matches: the zero operator, a nil method.
NoMethod == [cop |-> badCop, meth |-> NilVal]

rangeTargetRuleFuncMap(candidate, fm) ==
    LET hit(k) == strInSliceFold(candidate, <<CopString(k), CopContext(k), CopDescription(k)>>) IN
    IF \E k \in DOMAIN fm : hit(k)
    THEN LET k == CHOOSE k \in DOMAIN fm : hit(k) IN
         [cop |-> k, meth |-> Val("TargetRuleMethod", fm[k])]
    ELSE NoMethod

\* index that counts the operators from zero.
index_fromZero(r, idx) ==
    IF MethodsIsZero(r) THEN NoMethod
    ELSE CASE idx.typ \in {"ComparisonOperator", "int"} ->
                IF ~(0 <= idx.v /\ idx.v <= 5) THEN NoMethod
                ELSE IF idx.v + 1 \in DOMAIN r.v
                     THEN [cop |-> idx.v + 1, meth |-> Val("TargetRuleMethod", r.v[idx.v + 1])]
                     ELSE NoMethod
           [] idx.typ = "string" -> rangeTargetRuleFuncMap(idx.v, r.v)
           [] OTHER -> NoMethod

index(r, idx) ==
    IF MethodsIsZero(r) THEN NoMethod
    ELSE CASE idx.typ \in {"ComparisonOperator", "int"} ->
                IF ~(1 <= idx.v /\ idx.v <= 6) THEN NoMethod
                ELSE IF idx.v \in DOMAIN r.v
                     THEN [cop |-> idx.v, meth |-> Val("TargetRuleMethod", r.v[idx.v])]
                     ELSE NoMethod
           [] idx.typ = "string" -> rangeTargetRuleFuncMap(idx.v, r.v)
           [] OTHER -> NoMethod

\* TargetRuleMethods.Valid: the nil-instance error for the zero receiver,
\* else what Valid() says of the rule the Eq method builds; calling the nil
\* method of a receiver without Eq is a panic.
MethodsValid(r) ==
    IF MethodsIsZero(r) THEN Val("error", "nil instance")
    ELSE LET meth == index(r, Val("ComparisonOperator", Eq)).meth IN
         IF meth = NilVal THEN Panic
         ELSE Val("error", IF TargetRuleValid(meth.v) THEN "nil" ELSE "err")

MaxIndex == 7

MethodsInputs ==
    { NilVal,
      TRF(SingleLevel),
      TRF(TFDN(<<"u","i","d","=","*",",","d","c","=","a">>)),
      TRF(Ctrl(<<"1",".","2",".","3">>)) }

IndexTexts ==
    {CopString(c) : c \in Cops} \cup {CopContext(c) : c \in Cops}
        \cup {CopDescription(c) : c \in Cops}
        \cup {<<"e","q">>, <<"N","E">>, <<"e","q","u","a","l"," ","t","o">>, <<"N","O","T"," ","E","Q","U","A","L"," ","T","O">>, <<"l","e","s","s"," ","t","h","a","n">>, <<"E","q","u","a","l">>, <<"b","o","g","u","s">>, <<"=","=">>, <<>>}

IndexInputs ==
    {Val("int", i) : i \in -1..MaxIndex}
        \cup {Val("ComparisonOperator", c) : c \in 0..MaxIndex}
        \cup {Val("string", t) : t \in IndexTexts}
        \cup {NilVal, OtherVal}

InitMethods ==
    /\ arg \in [r : MethodsInputs, idx : IndexInputs]
    /\ res = NotParsed
    /\ RuleIdle
    /\ CollectionIdle

CallIndex ==
    /\ res = NotParsed
    /\ res' = [call |-> "Index", out |-> index(arg.r, arg.idx)]
    /\ UNCHANGED <<arg, ruleVars, collVars>>

CallMethodsLen ==
    /\ res = NotParsed
    /\ res' = [call |-> "Len", out |-> Val("int", MethodsLen(arg.r))]
    /\ UNCHANGED <<arg, ruleVars, collVars>>

CallMethodsIsZero ==
    /\ res = NotParsed
    /\ res' = [call |-> "IsZero", out |-> Val("bool", MethodsIsZero(arg.r))]
    /\ UNCHANGED <<arg, ruleVars, collVars>>

CallMethodsValid ==
    /\ res = NotParsed
    /\ res' = [call |-> "Valid", out |-> MethodsValid(arg.r)]
    /\ UNCHANGED <<arg, ruleVars, collVars>>

CallMatchCOP ==
    /\ res = NotParsed
    /\ arg.idx.typ = "string"
    /\ res' = [call |-> "matchCOP", out |-> Val("ComparisonOperator", matchCOP(arg.idx.v))]
    /\ UNCHANGED <<arg, ruleVars, collVars>>

\* SetOperator on a new target rule, the operator given as text
CallSetOperatorText ==
    /\ res = NotParsed
    /\ arg.idx.typ = "string"
    /\ res' = [call |-> "SetOperator",
               out |-> Val("ComparisonOperator",
                           SetOperator(SetKeyword(badTargetRule, Val("TargetKeyword", Target)), arg.idx).op)]
    /\ UNCHANGED <<arg, ruleVars, collVars>>

NextMethods ==
    \/ CallIndex
    \/ CallMethodsLen
    \/ CallMethodsIsZero
    \/ CallMethodsValid
    \/ CallMatchCOP
    \/ CallSetOperatorText

SpecMethods == InitMethods /\ [][NextMethods]_vars

\* The operator a text names by one of its three forms, whatever the case;
\* the zero operator where it names none.
NamedByText(t) ==
    LET names(c) == lc(t) \in {lc(CopString(c)), lc(CopContext(c)), lc(CopDescription(c))} IN
    IF \E c \in Cops : names(c) THEN CHOOSE c \in Cops : names(c) ELSE badCop

\* C18: an operator given as text is resolved from its symbol, its context
\* name or its description, whatever the case, and from nothing else: by
\* Index among the operators the receiver registers, and by matchCOP, on
\* which SetOperator relies.
C18_OperatorFromText ==
    (res # NotParsed /\ arg.idx.typ = "string") =>
        CASE res.call = "Index" /\ ~MethodsIsZero(arg.r) ->
                res.out.cop = IF NamedByText(arg.idx.v) \in DOMAIN arg.r.v
                              THEN NamedByText(arg.idx.v) ELSE badCop
          [] res.call = "matchCOP" -> res.out.v = NamedByText(arg.idx.v)
          [] res.call = "SetOperator" ->
                res.out.v = IF NamedByText(arg.idx.v) \in RegisteredOps(Target)
                            THEN NamedByText(arg.idx.v) ELSE badCop
          [] OTHER -> TRUE

C18_Witness ==
    /\ res # NotParsed
    /\ res.call = "Index"
    /\ arg.idx = Val("string", <<"e","q","u","a","l"," ","t","o">>)
    /\ res.out.cop = Eq

\* C18, the part that holds: Index resolves the three forms, whatever the case.
C18_IndexFromText ==
    (res # NotParsed /\ arg.idx.typ = "string" /\ res.call = "Index" /\ ~MethodsIsZero(arg.r)) =>
        res.out.cop = IF NamedByText(arg.idx.v) \in DOMAIN arg.r.v
                      THEN NamedByText(arg.idx.v) ELSE badCop

\* C19: Index by number or by operator returns the operator and a method
\* only for a number from 1 to 6 whose operator the receiver registers, and
\* the zero operator with a nil method otherwise; Len is between 0 and 6;
\* the zero receiver has Len 0, IsZero true and the nil-instance error from
\* Valid.
C19_IndexByNumber ==
    res # NotParsed =>
        /\ (res.call = "Index" /\ arg.idx.typ \in {"int", "ComparisonOperator"}) =>
              IF /\ ~MethodsIsZero(arg.r)
                 /\ arg.idx.v \in 1..6
                 /\ arg.idx.v \in DOMAIN arg.r.v
              THEN res.out.cop = arg.idx.v /\ res.out.meth # NilVal
              ELSE res.out = NoMethod
        /\ res.call = "Len" => res.out.v \in 0..6
        /\ arg.r = NilVal =>
              CASE res.call = "Len" -> res.out.v = 0
                [] res.call = "IsZero" -> res.out.v
                [] res.call = "Valid" -> res.out = Val("error", "nil instance")
                [] OTHER -> TRUE

C19_Witness ==
    /\ res # NotParsed
    /\ res.call = "Index"
    /\ arg.r = TRF(TFDN(<<"u","i","d","=","*",",","d","c","=","a">>))
    /\ arg.idx = Val("int", Ne)
    /\ res.out.cop = Ne
    /\ res.out.meth # NilVal

(***************************************************************************)
(* SpecLevels: the methods of an Inheritance value, the zero value among   *)
(* the receivers                                                           *)
(***************************************************************************)

InheritanceIsZero(inh) == ~inh.init

\* Inheritance.Valid: "err" for the zero value and for a value short of
\* levels, attribute type or bind type; "nil" otherwise.
InheritanceValid(inh) ==
    IF InheritanceIsZero(inh) THEN "err"
    ELSE IF Len(inh.levels) = 0 \/ Len(inh.at) = 0 \/ Len(inh.bt) = 0 THEN "err"
    ELSE "nil"

\* Eq and Ne with no look at the receiver's validity.
InheritanceMethod_unchecked(inh, kw, c) ==
    BR(Val("BindKeyword", kw), Val("ComparisonOperator", c), Val("string", InheritanceString(inh)))

\* Eq and Ne that build the rule on userattr whatever the pair's kind.
InheritanceMethod_userattr(inh, kw, c) ==
    IF InheritanceValid(inh) # "nil" THEN badTargetRule
    ELSE BR(Val("BindKeyword", BindUAT), Val("ComparisonOperator", c), Val("string", InheritanceString(inh)))

\* Inheritance.Eq and Inheritance.Ne: the bind rule for userattr or
\* groupattr (kw, the kind of the attribute-value pair the receiver carries);
\* the zero BindRule for a receiver that is not valid.
InheritanceMethod(inh, kw, c) ==
    IF InheritanceValid(inh) # "nil" THEN badTargetRule
    ELSE BR(Val("BindKeyword", kw), Val("ComparisonOperator", c), Val("string", InheritanceString(inh)))

LevelRaws ==
    { InhPrefix \o lv \o <<"]", ".">> \o at \o <<"#">> \o bt :
        lv \in {<<"0">>, <<"5">>, <<"0",",","5">>, <<"1",",","2",",","3">>, <<"1","0","0">>, <<>>},
        at \in {<<"m","a","n","a","g","e","r">>, <<"o","w","n","e","r">>, <<>>},
        bt \in {<<"U","S","E","R","D","N">>, <<"G","R","O","U","P","D","N">>, <<"L","D","A","P","U","R","I">>} }
        \cup {<<>>, <<"p","a","r","e","n","t","[","0","]","]",".","o","w","n","e","r","#","G","R","O","U","P","D","N">>, <<"p","a","r","e","n","t","[","1",",","2",",","3",",","4","]",".","s","q","u","a","t","c","o","b","b","l","e","r">>}

InheritanceInputs == {zeroInheritance} \cup {parseInheritance(raw).val : raw \in LevelRaws}

InitLevels ==
    /\ arg \in [inh : InheritanceInputs, kw : {BindUAT, BindGAT}]
    /\ res = NotParsed
    /\ RuleIdle
    /\ CollectionIdle

CallInheritanceIsZero ==
    /\ res = NotParsed
    /\ res' = [call |-> "IsZero", out |-> Val("bool", InheritanceIsZero(arg.inh))]
    /\ UNCHANGED <<arg, ruleVars, collVars>>

CallInheritanceValid ==
    /\ res = NotParsed
    /\ res' = [call |-> "Valid", out |-> Val("error", InheritanceValid(arg.inh))]
    /\ UNCHANGED <<arg, ruleVars, collVars>>

CallInheritanceString ==
    /\ res = NotParsed
    /\ res' = [call |-> "String", out |-> Val("string", InheritanceString(arg.inh))]
    /\ UNCHANGED <<arg, ruleVars, collVars>>

CallInheritanceEq ==
    /\ res = NotParsed
    /\ res' = [call |-> "Eq", out |-> Val("BindRule", InheritanceMethod(arg.inh, arg.kw, Eq))]
    /\ UNCHANGED <<arg, ruleVars, collVars>>

CallInheritanceNe ==
    /\ res = NotParsed
    /\ res' = [call |-> "Ne", out |-> Val("BindRule", InheritanceMethod(arg.inh, arg.kw, Ne))]
    /\ UNCHANGED <<arg, ruleVars, collVars>>

NextLevels ==
    \/ CallInheritanceIsZero
    \/ CallInheritanceValid
    \/ CallInheritanceString
    \/ CallInheritanceEq
    \/ CallInheritanceNe

SpecLevels == InitLevels /\ [][NextLevels]_vars

\* C20: of the zero Inheritance, IsZero() is true, Valid() returns an
\* error, String() returns the invalid-inheritance sentinel, and Eq() and
\* Ne() both return the zero BindRule.
C20_ZeroInheritance ==
    (res # NotParsed /\ arg.inh = zeroInheritance) =>
        CASE res.call = "IsZero" -> res.out = Val("bool", TRUE)
          [] res.call = "Valid" -> res.out = Val("error", "err")
          [] res.call = "String" -> res.out = Val("string", badInheritance)
          [] OTHER -> res.out = Val("BindRule", badTargetRule)

C20_Witness ==
    /\ res # NotParsed
    /\ arg.inh = zeroInheritance
    /\ res.call = "Ne"
    /\ res.out = Val("BindRule", badTargetRule)

(***************************************************************************)
(* SpecOIDs: an ObjectIdentifiers collection (Ctrls or ExtOps) under Push  *)
(* and Contains, and Valid / String of the values handed to it             *)
(***************************************************************************)

badDotNot == <<"<","i","n","v","a","l","i","d","_","d","o","t","n","o","t",">">>

\* Dot notation: numbers separated by single dots, two numbers at least.
isDotNot(t) ==
    /\ Len(t) > 0
    /\ isDigit(t[1]) /\ isDigit(t[Len(t)])
    /\ \E i \in 1..Len(t) : t[i] = "."
    /\ \A i \in 1..Len(t) : isDigit(t[i]) \/ t[i] = "."
    /\ \A i \in 1..(Len(t) - 1) : ~(t[i] = "." /\ t[i + 1] = ".")

badObjectIdentifier == Val("ObjectIdentifier", [kw |-> badTKW, dot |-> <<>>])

\* Ctrl(x) / ExtOp(x) as a value of its own: the zero value for a text that
\* is no dot notation.
newObjectIdentifier(kw, t) ==
    IF isDotNot(t) THEN Val("ObjectIdentifier", [kw |-> kw, dot |-> t]) ELSE badObjectIdentifier

oidIsZero(o) == o = badObjectIdentifier

oidValid(o) ==
    IF oidIsZero(o) THEN Val("error", "nil instance")
    ELSE IF ~isDotNot(o.v.dot) THEN Val("error", "err")
    ELSE Val("error", "nil")

oidString(o) == IF oidIsZero(o) THEN badDotNot ELSE o.v.dot

\* A push policy that looks at the type alone.
oidsPushPolicy_typeOnly(x) == x.typ = "ObjectIdentifier"

oidsPushPolicy(x) == x.typ = "ObjectIdentifier" /\ oidValid(x) = Val("error", "nil")

oidsPush(s, x) == IF oidsPushPolicy(x) THEN Append(s, x.v) ELSE s

oidsContains(s, x) ==
    /\ x.typ = "ObjectIdentifier"
    /\ ~oidIsZero(x)
    /\ \E i \in 1..Len(s) : eq(s[i].dot, x.v.dot)

MaxOIDs == 3        \* how many elements a collection is grown to

OIDTexts == SampleOIDs \cup {<<"1",".","2",".","3">>, <<"1",".",".","2">>, <<"b","o","g","u","s">>, <<>>}

\* What a collection on keyword kw is handed: identifiers built for that
\* keyword (the zero value where the text is no dot notation), the keyword
\* itself, a rule and nil.
OIDInputs(kw) ==
    {newObjectIdentifier(kw, t) : t \in OIDTexts}
        \cup {badObjectIdentifier, TKW(kw), RuleVal(badTargetRule), NilVal}

InitOIDs ==
    /\ arg \in {TKW(TargetCtrl), TKW(TargetExtOp)}
    /\ res = NilVal
    /\ RuleIdle
    /\ CollectionIdle

PushOID ==
    /\ Len(trs) < MaxOIDs
    /\ \E x \in OIDInputs(arg.v) :
        /\ trs' = oidsPush(trs, x)
        /\ tcall' = TCall("Push", x, 0, NilVal)
    /\ tprev' = trs
    /\ UNCHANGED <<ruleVars, funVars, nrep>>

ContainsOID ==
    /\ \E x \in OIDInputs(arg.v) :
        tcall' = TCall("Contains", x, 0, Val("bool", oidsContains(trs, x)))
    /\ tprev' = trs
    /\ UNCHANGED <<ruleVars, funVars, nrep, trs>>

ValidOID ==
    /\ \E t \in OIDTexts :
        LET x == newObjectIdentifier(arg.v, t) IN
        tcall' = TCall("Valid", x, 0, oidValid(x))
    /\ tprev' = trs
    /\ UNCHANGED <<ruleVars, funVars, nrep, trs>>

StringOID ==
    /\ \E t \in OIDTexts :
        LET x == newObjectIdentifier(arg.v, t) IN
        tcall' = TCall("String", x, 0, Val("string", oidString(x)))
    /\ tprev' = trs
    /\ UNCHANGED <<ruleVars, funVars, nrep, trs>>

NextOIDs ==
    \/ PushOID
    \/ ContainsOID
    \/ ValidOID
    \/ StringOID

SpecOIDs == InitOIDs /\ [][NextOIDs]_vars

\* A non-zero ObjectIdentifier in dot notation.
IsGoodOID(x) ==
    /\ x.typ = "ObjectIdentifier"
    /\ x # badObjectIdentifier
    /\ Len(x.v.dot) > 0
    /\ \A i \in 1..Len(x.v.dot) : x.v.dot[i] \in {Digits[j] : j \in 1..Len(Digits)} \cup {"."}

C21_LastCall ==
    CASE tcall.name = "Push" ->
            Len(trs) = Len(tprev) + (IF IsGoodOID(tcall.arg) THEN 1 ELSE 0)
      [] tcall.name = "Contains" -> (~IsGoodOID(tcall.arg) => tcall.ret = Val("bool", FALSE))
      [] tcall.name = "Valid" ->
            (tcall.arg = badObjectIdentifier => tcall.ret = Val("error", "nil instance"))
      [] tcall.name = "String" ->
            (tcall.arg = badObjectIdentifier => tcall.ret = Val("string", badDotNot))
      [] OTHER -> TRUE

SetParen(r, state) == [r EXCEPT !.paren = state]

KindTR == Val("kind", "TargetRule")
KindBR == Val("kind", "BindRule")

\* TargetRule.String switches the parenthesization of the condition it
\* wraps on before rendering it, and the condition keeps it.
AfterTargetRuleString(r) == IF IsZero(r) \/ r.paren THEN r ELSE SetParen(r, TRUE)

ParenRules ==
    {[kind |-> KindTR, r |-> TR(TKW(k), CopVal(c), Val("string", <<"x">>))] :
        k \in TargetKeywords, c \in {Eq, Ne}}
      \cup
    {[kind |-> KindBR, r |-> BR(Val("BindKeyword", k), CopVal(c), Val("string", <<"x">>))] :
        k \in BindKeywords, c \in {Eq, Ne}}

InitParen ==
    /\ \E x \in ParenRules :
        /\ ~IsZero(x.r)
        /\ x.r.op # badCop
        /\ rule = x.r
        /\ arg = x.kind
    /\ prev = badTargetRule
    /\ call = NoCall
    /\ res = NotParsed
    /\ CollectionIdle

CallParen ==
    /\ \E state \in BOOLEAN :
        /\ rule' = SetParen(rule, state)
        /\ call' = Call("Paren", NilVal, NilVal, NilVal, 0)
    /\ prev' = rule
    /\ res' = NotParsed
    /\ UNCHANGED <<collVars, arg>>

CallString ==
    /\ res' = Val("string", IF arg = KindTR THEN TargetRuleString(rule) ELSE BindRuleString(rule))
    /\ rule' = IF arg = KindTR THEN AfterTargetRuleString(rule) ELSE rule
    /\ prev' = rule
    /\ call' = Call("String", NilVal, NilVal, NilVal, 0)
    /\ UNCHANGED <<collVars, arg>>

NextParen ==
    \/ CallParen
    \/ CallString

SpecParen == InitParen /\ [][NextParen]_vars

InParens(t) == Len(t) > 1 /\ t[1] = "(" /\ t[Len(t)] = ")"

\* C22: String() renders the bounding parentheses exactly while the rule's
\* parenthesization is enabled: a rule, a TargetRule included, whose
\* parenthesization was disabled renders keyword, operator and quoted value
\* with no parentheses around them.
C22_ParensOnlyWhileEnabled ==
    call.name = "String" => (InParens(res.v) <=> prev.paren)

\* C22, the part that holds: a bind rule renders its parentheses exactly
\* while they are enabled.
C22_BindRuleParens ==
    (call.name = "String" /\ arg = KindBR) => (InParens(res.v) <=> prev.paren)

C22_Witness ==
    /\ call.name = "String"
    /\ arg = KindBR
    /\ ~prev.paren
    /\ res.v = <<"u","s","e","r","d","n"," ","="," ","\"","x","\"">>

(***************************************************************************)
(* Claims about a rule under its setters                                   *)
(***************************************************************************)

\* C23: after any sequence of SetKeyword, SetOperator and SetExpression
\* calls, the operator a rule stores is unset or one its current keyword
\* registers.
C23_OperatorFitsKeyword ==
    rule.op = badCop \/ rule.op \in RegisteredOps(Keyword(rule))

C23_Witness ==
    /\ call.name = "SetKeyword"
    /\ prev.op = Ne
    /\ Keyword(prev) = Target
    /\ Keyword(rule) = TargetScope

(***************************************************************************)
(* SpecPushBuilt: a TargetRules collection handed rules as TR builds them, *)
(* legal and illegal alike                                                 *)
(***************************************************************************)

MaxPushed == 2      \* how many rules a collection is grown to

\* Rules as TR returns them for a keyword with two operators, a keyword with
\* one, and no keyword; for a registered, an unregistered and no operator;
\* for a value, an empty value and no value.
BuiltRules ==
    {RuleVal(TR(kw, op, ex)) :
        kw \in {TKW(Target), TKW(TargetScope), TKW(badTKW)},
        op \in {CopVal(Eq), CopVal(Ne), CopVal(badCop)},
        ex \in {Val("string", SampleVals[1]), Val("string", <<>>), NilVal}}

InitPushBuilt ==
    /\ trs = <<>>
    /\ tprev = <<>>
    /\ tcall = NoTCall
    /\ nrep = 0
    /\ RuleIdle
    /\ FunIdle

BuildTRs ==
    /\ tcall.name = "none"
    /\ \E xs \in SeqsUpTo(BuiltRules, MaxPushed) :
        /\ trs' = TRs(xs)
        /\ tcall' = TCall("TRs", Val("args", xs), 0, NilVal)
    /\ tprev' = <<>>
    /\ UNCHANGED <<ruleVars, funVars, nrep>>

PushBuilt ==
    /\ Len(trs) < MaxPushed
    /\ \E x \in BuiltRules :
        /\ trs' = Push(trs, <<x>>)
        /\ tcall' = TCall("Push", x, 0, NilVal)
    /\ tprev' = trs
    /\ UNCHANGED <<ruleVars, funVars, nrep>>

NextPushBuilt ==
    \/ BuildTRs
    \/ PushBuilt

SpecPushBuilt == InitPushBuilt /\ [][NextPushBuilt]_vars

\* A rule that is structurally legal: non-zero, with an operator its keyword
\* registers and an expression that is not empty.
IsLegalRule(r) ==
    /\ ~IsZero(r)
    /\ r.op \in RegisteredOps(Keyword(r))
    /\ NonEmptyExpr(r.ex)

\* C24: every element of a TargetRules collection is a non-zero rule with an
\* operator legal for its keyword and an expression that is not empty:
\* TargetRules.Push and TRs accept no other.
C24_OnlyLegalRulesHeld ==
    \A i \in 1..Len(trs) : IsLegalRule(trs[i])

\* C24, the part that holds: no zero rule is held.
C24_NoZeroRuleHeld ==
    \A i \in 1..Len(trs) : ~IsZero(trs[i])

C24_Witness ==
    /\ tcall.name = "Push"
    /\ ~IsLegalRule(tcall.arg.v)
    /\ Keyword(tcall.arg.v) = TargetScope
    /\ Len(trs) = Len(tprev) + 1

(***************************************************************************)
(* SpecQuote: a rule built for each Target keyword, on a single value or   *)
(* on a multi-value stack, under SetQuoteStyle and SetExpression           *)
(***************************************************************************)

\* The styles handed to SetQuoteStyle: the two named ones and one that is
\* neither.
QuoteStyles == {MultivalOuterQuotes, MultivalSliceQuotes, 2}

\* The expressions: one value, and a stack of two in the default style.
QuoteExprs == {Val("string", SampleVals[1]), Stack(SubSeq(SampleVals, 1, 2), FALSE)}

InitQuote ==
    /\ \E k \in TargetKeywords, ex \in QuoteExprs : rule = TR(TKW(k), CopVal(Eq), ex)
    /\ prev = badTargetRule
    /\ call = NoCall
    /\ CollectionIdle
    /\ FunIdle

QuoteStyleAny ==
    /\ \E style \in QuoteStyles :
        /\ rule' = SetQuoteStyle(rule, style)
        /\ call' = Call("SetQuoteStyle", NilVal, NilVal, NilVal, style)
    /\ prev' = rule
    /\ UNCHANGED <<collVars, funVars>>

SetExpressionValue ==
    /\ \E ex \in QuoteExprs :
        /\ rule' = SetExpression(rule, ex)
        /\ call' = Call("SetExpression", NilVal, NilVal, ex, 0)
    /\ prev' = rule
    /\ UNCHANGED <<collVars, funVars>>

NextQuote ==
    \/ QuoteStyleAny
    \/ SetExpressionValue

SpecQuote == InitQuote /\ [][NextQuote]_vars

\* A rule on a multi-value keyword whose expression is a stack.
IsMultival(r) == Keyword(r) \in MultivalKeywords /\ r.ex.typ = "stack"

\* Exactly one quoting level, the one the style names.
OneLevelFor(r, style) ==
    IF style = MultivalSliceQuotes
    THEN r.ex.v.encap /\ ~r.encap
    ELSE r.encap /\ ~r.ex.v.encap

C25_OneLevelAfterCall ==
    (call'.name = "SetQuoteStyle" /\ IsMultival(rule)) => OneLevelFor(rule', call'.style)

C25_TwiceIsOnce ==
    (/\ call.name = "SetQuoteStyle" /\ call'.name = "SetQuoteStyle"
     /\ call'.style = call.style /\ IsMultival(rule)) => rule' = rule

\* SetQuoteStyle(1) and then SetQuoteStyle(0): prev holds the rule as it was
\* before the first of the two calls.
C25_OneThenZero ==
    /\ call.name = "SetQuoteStyle" /\ call.style = MultivalSliceQuotes
    /\ call'.name = "SetQuoteStyle" /\ call'.style = MultivalOuterQuotes
    /\ IsMultival(rule)

\* C25: on a rule whose expression is a multi-value stack, SetQuoteStyle
\* leaves exactly one quoting level, the one its style names; a second call
\* with the same style changes nothing; and SetQuoteStyle(1) followed by
\* SetQuoteStyle(0) renders the text the rule rendered before either call.
C25_QuoteStyleLaws ==
    [][/\ C25_OneLevelAfterCall
       /\ C25_TwiceIsOnce
       /\ C25_OneThenZero => TargetRuleString(rule') = TargetRuleString(prev)]_vars

\* C25 as amended: the same, the text after SetQuoteStyle(1) and
\* SetQuoteStyle(0) being that of the outer style, which is the text before
\* either call where the rule was in the outer style then.
C25_QuoteStyleLawsFromOuter ==
    [][/\ C25_OneLevelAfterCall
       /\ C25_TwiceIsOnce
       /\ C25_OneThenZero =>
            /\ OneLevelFor(rule', MultivalOuterQuotes)
            /\ OneLevelFor(prev, MultivalOuterQuotes) =>
                    TargetRuleString(rule') = TargetRuleString(prev)]_vars

C25_Witness ==
    /\ call.name = "SetQuoteStyle"
    /\ call.style = MultivalOuterQuotes
    /\ IsMultival(rule)
    /\ IsMultival(prev)
    /\ OneLevelFor(prev, MultivalSliceQuotes)
    /\ OneLevelFor(rule, MultivalOuterQuotes)

\* The texts in which an expression is inside double quotes: one pair
\* around the whole value, or one pair around each element.
QuotedForms(ex) ==
    IF ex.typ = "stack"
    THEN {OuterQuoted(ex.v.vals), SliceQuoted(ex.v.vals)}
    ELSE {Quoted(ex.v)}

\* C26: every non-zero TargetRule, on any of the nine Target keywords, on a
\* single value or on a multi-value stack, renders its expression inside
\* double quotes, after any sequence of SetExpression and SetQuoteStyle
\* calls.
C26_ExpressionAlwaysQuoted ==
    ~IsZero(rule) =>
        \E q \in QuotedForms(rule.ex) : TargetRuleString(rule) = Rendered(rule, q)

\* C26, the part that holds: a rule renders its expression inside double
\* quotes as long as SetQuoteStyle was not called on it.
C26_QuotedUntilStyled ==
    [][(C26_ExpressionAlwaysQuoted /\ call'.name # "SetQuoteStyle")
            => C26_ExpressionAlwaysQuoted']_vars

C26_Witness ==
    /\ call.name = "SetQuoteStyle"
    /\ call.style = MultivalSliceQuotes
    /\ Keyword(rule) = TargetAttr
    /\ rule.ex.typ = "stack"
    /\ TargetRuleString(rule) = Rendered(rule, SliceQuoted(rule.ex.v.vals))

(***************************************************************************)
(* Claims about PermissionBindRule under SpecPBR                           *)
(***************************************************************************)

\* Validation fails: no Permission, no bind rule, a zero or an invalid bind
\* rule, an empty stack of bind rules, or a bind rule whose ID is not the
\* bind-rule ID.
ValidationFails(r) ==
    \/ r.P.typ # "Permission"
    \/ r.B.typ \notin {"BindRule", "BindRules"}
    \/ r.B.typ = "BindRule" /\ (IsZero(r.B.v) \/ r.B.v.op = badCop \/ r.B.v.id # bindRuleID)
    \/ r.B.typ = "BindRules" /\ Len(r.B.v.elems) = 0

C27_AsValidationSays ==
    CASE res.call = "Valid" ->
            res.out = Val("error", IF ValidationFails(arg) THEN "err" ELSE "nil")
      [] res.call = "PBR" ->
            res.out = PBRVal(IF ValidationFails(arg) THEN badPermissionBindRule ELSE arg)
      [] OTHER ->
            res.out = Val("string", IF ValidationFails(arg) THEN badPB ELSE PBRText(arg))

\* C27: PBR(P, B) returns the populated value exactly when Valid() returns
\* no error and the zero value otherwise, and String() returns the sentinel
\* exactly when validation fails and the Permission, a space, the bind rule
\* and a semicolon otherwise.
C27_InvalidIsDistinguishable ==
    res # NotParsed => C27_AsValidationSays

\* C27, the part that holds: the same, wherever a BindContext is given.
C27_DistinguishableGivenBindContext ==
    (res # NotParsed /\ arg.B # NilVal) => C27_AsValidationSays

C27_Witness ==
    /\ res # NotParsed
    /\ res.call = "String"
    /\ arg.B.typ = "BindRule"
    /\ ~IsZero(arg.B.v)
    /\ arg.B.v.id = targetRuleID
    /\ arg.P = Allow(<<ReadAccess>>)
    /\ res.out = Val("string", badPB)

(***************************************************************************)
(* SpecContains: a TargetRules collection that is pushed rules and asked   *)
(* what it contains                                                        *)
(***************************************************************************)

ContainRules ==
    { TR(TKW(Target), CopVal(Eq), Val("string", LDAPScheme \o <<"c","n","=","a">>)),
      TR(TKW(TargetScope), CopVal(Eq), Val("string", <<"b","a","s","e">>)),
      TR(TKW(TargetAttr), CopVal(Ne), Val("string", SampleVals[1])) }

\* What Contains is asked: the rendered form of a rule, as it is and in upper
\* case; the text of a keyword, again in both cases; the empty text; Target,
\* Bind and invalid keywords; a rule and nil.
ContainsInputs ==
    {Val("string", TargetRuleString(r)) : r \in ContainRules}
        \cup {Val("string", t) : t \in {<<"("," ","T","A","R","G","E","T","S","C","O","P","E"," ","="," ","\"","B","A","S","E","\""," ",")">>, Target, <<"T","A","R","G","E","T","A","T","T","R">>, <<"b","o","g","u","s">>, <<>>}}
        \cup {TKW(k) : k \in {Target, TargetScope, TargetAttr, TargetFilter, badTKW}}
        \cup {Val("BindKeyword", BindSSF), NilVal}
        \cup {RuleVal(r) : r \in ContainRules}

InitContains ==
    /\ trs = TRs(<<>>)
    /\ tprev = <<>>
    /\ tcall = NoTCall
    /\ nrep = 0
    /\ RuleIdle
    /\ FunIdle

PushRule ==
    /\ \E r \in ContainRules :
        /\ trs' = Push(trs, <<RuleVal(r)>>)
        /\ tcall' = TCall("Push", RuleVal(r), 0, NilVal)
    /\ tprev' = trs
    /\ UNCHANGED <<ruleVars, funVars, nrep>>

CallContains ==
    /\ \E x \in ContainsInputs :
        tcall' = TCall("Contains", x, 0, Val("bool", contains(trs, x)))
    /\ tprev' = trs
    /\ UNCHANGED <<ruleVars, funVars, nrep, trs>>

NextContains ==
    \/ PushRule
    \/ CallContains

SpecContains == InitContains /\ [][NextContains]_vars

\* What Contains is to answer: for a text, whether it is the rendered form
\* of an element, whatever the case; for a Target keyword, whether it is the
\* keyword of an element; FALSE for anything else.
Contained(s, x) ==
    CASE x.typ = "string" ->
            Len(x.v) > 0 /\ \E i \in 1..Len(s) : lc(TargetRuleString(s[i])) = lc(x.v)
      [] x.typ = "TargetKeyword" ->
            x.v \in TargetKeywords /\ \E i \in 1..Len(s) : Keyword(s[i]) = x.v
      [] OTHER -> FALSE

\* C28: Contains(x) matches a text against each element's rendered form and
\* a Keyword against each element's keyword, whatever the case; it is false
\* for an empty collection, an empty text, a Bind or invalid keyword and a
\* value of another type; and it leaves the collection as it was.
C28_ContainsByRenderedForm ==
    tcall.name = "Contains" =>
        /\ tcall.ret = Val("bool", Contained(trs, tcall.arg))
        /\ trs = tprev

\* C28, the part that holds: the answer for a Keyword, for the empty text
\* and for a value of another type, and the collection left as it was.
C28_ContainsByKeyword ==
    (tcall.name = "Contains" /\ (tcall.arg.typ # "string" \/ tcall.arg.v = <<>>)) =>
        /\ tcall.ret = Val("bool", Contained(trs, tcall.arg))
        /\ trs = tprev

C28_Witness ==
    /\ tcall.name = "Contains"
    /\ tcall.arg = TKW(TargetScope)
    /\ Len(trs) = 2
    /\ tcall.ret = Val("bool", TRUE)

(***************************************************************************)
(* SpecIdent: isIdentifier over short texts                                *)
(***************************************************************************)

MaxIdent == 3       \* longest text handed to isIdentifier

\* A lowercase and an uppercase letter, a digit, the two marks an identifier
\* may hold, and two characters it may not.
IdentAlphabet == {"a", "Z", "7", "-", ";", "_", " "}

InitIdent ==
    /\ arg \in SeqsUpTo(IdentAlphabet, MaxIdent)
    /\ res = NotParsed
    /\ RuleIdle
    /\ CollectionIdle

CallIsIdentifier ==
    /\ res = NotParsed
    /\ res' = Val("bool", isIdentifier(arg))
    /\ UNCHANGED <<arg, ruleVars, collVars>>

NextIdent == CallIsIdentifier

SpecIdent == InitIdent /\ [][NextIdent]_vars

LowerLetters == {Lower[i] : i \in 1..Len(Lower)}
UpperLetters == {Upper[i] : i \in 1..Len(Upper)}
DigitChars == {Digits[i] : i \in 1..Len(Digits)}
Alphanumerics == LowerLetters \cup UpperLetters \cup DigitChars

\* C29: isIdentifier(s) is true if and only if s is not empty, begins with
\* a lowercase letter, ends with a letter or a digit, and holds nothing but
\* letters, digits, hyphens and semicolons.
C29_IdentifierShape ==
    res # NotParsed =>
        (res.v <=> /\ Len(arg) > 0
                   /\ arg[1] \in LowerLetters
                   /\ arg[Len(arg)] \in Alphanumerics
                   /\ \A i \in 1..Len(arg) : arg[i] \in Alphanumerics \cup {"-", ";"})

C29_Witness ==
    /\ res # NotParsed
    /\ arg = <<"a", ";", "-">>
    /\ ~res.v

(***************************************************************************)
(* SpecInherit: Inheritance values built by Inherit from an                *)
(* attribute-value pair and levels, or obtained from parseInheritance,     *)
(* rendered and turned into bind rules                                     *)
(***************************************************************************)

\* UAT(at, bt) and GAT(at, bt): an attribute type paired with a bind type or
\* a value, for the userattr or the groupattr keyword.
AttributeBindTypeOrValue(kw, at, bt) == [kw |-> kw, at |-> at, bt |-> bt]

\* Inherit(abtv, levels...): the zero Inheritance unless there is a level,
\* every level is one of 0..9 and the pair is complete. The value is paired
\* with the keyword of its attribute-value pair.
Inherit(abtv, levels) ==
    [inh |-> IF /\ Len(levels) > 0
                /\ \A i \in 1..Len(levels) : levels[i] \in 0..9
                /\ Len(abtv.at) > 0 /\ Len(abtv.bt) > 0
             THEN [init |-> TRUE, levels |-> levels, at |-> abtv.at, bt |-> abtv.bt]
             ELSE zeroInheritance,
     kw |-> abtv.kw]

\* The Inheritance parseInheritance returns carries a userattr pair.
ParsedInheritance(raw) == [inh |-> parseInheritance(raw).val, kw |-> BindUAT]

MaxInherited == 2   \* how many levels Inherit is handed at most

InheritLevels ==
    {lv \in SeqsUpTo({0, 3, 9, 10}, MaxInherited) :
        \A i, j \in 1..Len(lv) : i # j => lv[i] # lv[j]}

InheritPairs ==
    {AttributeBindTypeOrValue(kw, at, bt) :
        kw \in {BindUAT, BindGAT},
        at \in {<<"m","a","n","a","g","e","r">>, <<"o","w","n","e","r">>},
        bt \in {<<"U","S","E","R","D","N">>, <<"u","i","d","=","f","r","a","n","k",",","d","c","=","a">>}}

InheritRaws == {<<"p","a","r","e","n","t","[","0",",","5",",","9","]",".","m","a","n","a","g","e","r","#","U","S","E","R","D","N">>, <<"p","a","r","e","n","t","[","0","]",".","o","w","n","e","r","#","G","R","O","U","P","D","N">>, <<"p","a","r","e","n","t","[","1","]","#","R","O","L","E","D","N">>}

InitInherit ==
    /\ arg \in {Inherit(p, lv) : p \in InheritPairs, lv \in InheritLevels}
                \cup {ParsedInheritance(raw) : raw \in InheritRaws}
    /\ res = NotParsed
    /\ RuleIdle
    /\ CollectionIdle

NextInherit ==
    \/ CallInheritanceString
    \/ CallInheritanceEq
    \/ CallInheritanceNe

SpecInherit == InitInherit /\ [][NextInherit]_vars

\* parent[<levels>].<attributeType>#<bindType-or-value>
InheritanceText(inh) ==
    <<"p","a","r","e","n","t","[">> \o Join([i \in 1..Len(inh.levels) |-> <<Digits[inh.levels[i] + 1]>>], <<",">>)
        \o <<"]",".">> \o inh.at \o <<"#">> \o inh.bt

\* C30: a non-zero Inheritance renders parent[, its levels separated by
\* commas, ]., its attribute type, # and its bind type or value; Eq() and
\* Ne() return the bind rule of the pair's keyword (userattr for UAT and for
\* a parsed value, groupattr for GAT) with = or != and that text in quotes.
C30_InheritRenders ==
    (res # NotParsed /\ arg.inh # zeroInheritance) =>
        CASE res.call = "String" -> res.out.v = InheritanceText(arg.inh)
          [] res.call = "Eq" ->
                BindRuleString(res.out.v) = arg.kw \o <<" ","="," ">> \o Quoted(InheritanceText(arg.inh))
          [] OTHER ->
                BindRuleString(res.out.v) = arg.kw \o <<" ","!","="," ">> \o Quoted(InheritanceText(arg.inh))

\* groupattr = "parent[3,9].owner#USERDN"
C30_Witness ==
    /\ res # NotParsed
    /\ res.call = "Eq"
    /\ arg = Inherit(AttributeBindTypeOrValue(BindGAT, <<"o","w","n","e","r">>, <<"U","S","E","R","D","N">>), <<3, 9>>)
    /\ BindRuleString(res.out.v) = <<"g","r","o","u","p","a","t","t","r"," ","="," ","\"","p","a","r","e","n","t","[","3",",","9","]",".","o","w","n","e","r","#","U","S","E","R","D","N","\"">>

====
